---- MODULE Spec2Model ----
(***************************************************************************)
(* Text-model alignment and entity consolidation of redakto-app-charite:   *)
(*   - SequenceTaggerInferenceMaker._get_sentences_with_boundaries         *)
(*     (boundary reconstruction, anchor search, post-pass repair),         *)
(*   - _convert_flair_sentences_to_list_of_entity_dict / PredictionService *)
(*     ._convert_flair_sentences_to_entity_items (span recovery),          *)
(*   - CoarseLabelUtils.map_to_coarse_labels (coarse consolidation).       *)
(* Strings are sequences of one-character strings; positions are 0-based   *)
(* as in Python, and find/slice follow Python's index adjustment.          *)
(***************************************************************************)
EXTENDS Integers, Sequences, FiniteSets, TLC

VARIABLES pc, original_text, buffer, tokenized, swbs, predicted, items,
          entity_set_id, merge_consecutive, coarse, tracking,
          again, seen, anchor, http, loader, service

vars == <<pc, original_text, buffer, tokenized, swbs, predicted, items,
          entity_set_id, merge_consecutive, coarse, tracking,
          again, seen, anchor, http, loader, service>>

(***************************************************************************)
(* Characters                                                              *)
(***************************************************************************)
SP == " "
NL == "\n"
TAB == "\t"

\* Characters matched by the regular-expression class \s (and split by
\* str.split() without argument) among the characters of the model.
Whitespace == {SP, NL, TAB}

Digits == {"0", "1", "2", "3", "4", "5", "6", "7", "8", "9"}

\* The character class of separator_pattern: [\s,.\-:;()\[\]{}"'/\\]
SeparatorChars ==
    Whitespace \cup {",", ".", "-", ":", ";", "(", ")", "[", "]", "{", "}",
                     "\"", "'", "/", "\\"}

\* The tab placeholder '!!!'
Placeholder == <<"!", "!", "!">>

(***************************************************************************)
(* Python string primitives                                                *)
(***************************************************************************)
MinOf(S) == CHOOSE m \in S : \A o \in S : m <= o

Min2(a, b) == IF a <= b THEN a ELSE b

Max2(a, b) == IF a >= b THEN a ELSE b

\* A slice index as Python adjusts it: negative counts from the end, then
\* clamped to [0, n].
PyIdx(i, n) ==
    IF i < 0 THEN Max2(i + n, 0) ELSE Min2(i, n)

\* s[a:b]
Slice(s, a, b) ==
    LET lo == PyIdx(a, Len(s))
        hi == PyIdx(b, Len(s))
    IN  IF hi <= lo THEN <<>> ELSE SubSeq(s, lo + 1, hi)

\* s.find(sub, a, b): the lowest index of an occurrence of sub lying wholly
\* in s[a:b], or -1.
Find(s, sub, a, b) ==
    LET lo == PyIdx(a, Len(s))
        hi == PyIdx(b, Len(s))
        hits == {i \in lo..(hi - Len(sub)) :
                    /\ a <= Len(s)
                    /\ SubSeq(s, i + 1, i + Len(sub)) = sub}
    IN  IF hits = {} THEN -1 ELSE MinOf(hits)

\* s.find(sub, a)
FindFrom(s, sub, a) == Find(s, sub, a, Len(s))

\* s.replace(old, '') for a non-empty old: leftmost non-overlapping
\* occurrences are removed.
RECURSIVE RemoveAll(_, _)
RemoveAll(s, old) ==
    IF Len(s) < Len(old) THEN s
    ELSE IF SubSeq(s, 1, Len(old)) = old
         THEN RemoveAll(SubSeq(s, Len(old) + 1, Len(s)), old)
         ELSE <<s[1]>> \o RemoveAll(Tail(s), old)

\* The non-empty pieces of s between characters of seps:
\* [t for t in s.split(' ') if t] with seps = {' '}, s.split() with
\* seps = Whitespace.
RECURSIVE SplitNonEmpty(_, _, _)
SplitNonEmpty(s, seps, cur) ==
    IF s = <<>> THEN (IF cur = <<>> THEN <<>> ELSE <<cur>>)
    ELSE IF s[1] \in seps
         THEN (IF cur = <<>> THEN <<>> ELSE <<cur>>)
              \o SplitNonEmpty(Tail(s), seps, <<>>)
         ELSE SplitNonEmpty(Tail(s), seps, Append(cur, s[1]))

\* re.sub(r'\s+', ' ', s)
RECURSIVE CollapseWhitespace(_)
CollapseWhitespace(s) ==
    IF s = <<>> THEN <<>>
    ELSE IF s[1] \in Whitespace
         THEN IF Len(s) > 1 /\ s[2] \in Whitespace
              THEN CollapseWhitespace(Tail(s))
              ELSE <<SP>> \o CollapseWhitespace(Tail(s))
         ELSE <<s[1]>> \o CollapseWhitespace(Tail(s))

\* re.search(r'\s', s)
HasWhitespace(s) == \E i \in 1..Len(s) : s[i] \in Whitespace

(***************************************************************************)
(* Boundary reconstruction                                                 *)
(***************************************************************************)
\* The buffer default of _get_sentences_with_boundaries and
\* _get_potential_sentence_boundary.
DefaultBuffer == 15

\* Lines 82-85: the sentence string rebuilt from the tokenizer's tokens.
RECURSIVE PotentialSentence(_)
PotentialSentence(sentence) ==
    IF sentence = <<>> THEN <<>>
    ELSE LET token == sentence[1]
             token_text == RemoveAll(token.text, Placeholder)
         IN  token_text
             \o (IF token.space_after /\ ~token.last_in_sentence
                 THEN <<SP>> ELSE <<>>)
             \o PotentialSentence(Tail(sentence))

\* Lines 149-161: the scan for the last occurrence of final_stretch that
\* ends at or before search_end; returns final_index (or -1).
RECURSIVE ScanFinalStretch(_, _, _, _, _, _)
ScanFinalStretch(text, final_stretch, start_index, search_end, temp_offset, final_index) ==
    IF ~(temp_offset < search_end) THEN final_index
    ELSE LET pos == FindFrom(text, final_stretch, temp_offset)
         IN  IF pos = -1 \/ pos + Len(final_stretch) > search_end
             THEN final_index
             ELSE IF pos >= start_index
                  THEN ScanFinalStretch(text, final_stretch, start_index,
                                        search_end,
                                        pos + Len(final_stretch), pos)
                  ELSE ScanFinalStretch(text, final_stretch, start_index,
                                        search_end, pos + 1, final_index)

\* _get_potential_sentence_boundary: <<start_index, final_index>>.
GetPotentialSentenceBoundary(text, somajo_tokenized_sentence, offset, buf) ==
    LET tokens == SplitNonEmpty(somajo_tokenized_sentence, {SP}, <<>>)
    IN  IF tokens = <<>> THEN <<offset, offset>>
        ELSE
        LET start_stretch == tokens[1]
            final_stretch == tokens[Len(tokens)]
            start_index == FindFrom(text, start_stretch, offset)
        IN  IF start_index = -1 THEN <<offset, offset>>
            ELSE
            LET expected_length == Len(somajo_tokenized_sentence)
                search_end == Min2(start_index + expected_length + buf,
                                   Len(text))
                found == ScanFinalStretch(text, final_stretch, start_index,
                                          search_end, start_index, -1)
                final_index ==
                    IF found # -1 THEN found + Len(final_stretch)
                    ELSE Min2(start_index + expected_length, Len(text))
            IN  <<start_index, final_index>>

\* Lines 87-89: the first search from the cursor, and the retry from
\* prev_end - buffer when the found start lies more than buffer after
\* prev_end.
LocateSentence(text, sent, offset, prev_end, buf) ==
    LET first == GetPotentialSentenceBoundary(text, sent, offset, buf)
    IN  IF first[1] - prev_end > buf
        THEN GetPotentialSentenceBoundary(text, sent, prev_end - buf, buf)
        ELSE first

\* Lines 79-93: the loop over the tokenizer's sentences.
RECURSIVE LocateAll(_, _, _, _, _)
LocateAll(text, sentences, offset, prev_end, buf) ==
    IF sentences = <<>> THEN <<>>
    ELSE LET sent == PotentialSentence(sentences[1])
             se == LocateSentence(text, sent, offset, prev_end, buf)
         IN  <<[sentence |-> sent, start |-> se[1], end |-> se[2]]>>
             \o LocateAll(text, Tail(sentences), se[2], se[2], buf)

Failed(swb) == swb.start = swb.end

\* Lines 102-104: the index of the last member of the run of failed
\* sentences that begins at start_idx (1-based).
RECURSIVE RunEnd(_, _)
RunEnd(list, end_idx) ==
    IF end_idx + 1 <= Len(list) /\ Failed(list[end_idx + 1])
    THEN RunEnd(list, end_idx + 1)
    ELSE end_idx

\* Faulty variant: the new start is not held at 0 and the new end is the
\* successor's start.
RepairRunUnclamped(list, start_idx, end_idx, text_len, buf) ==
    LET with_start ==
            IF start_idx > 1
            THEN LET new_start == list[start_idx - 1].end
                 IN  [i \in 1..Len(list) |->
                        IF i \in start_idx..end_idx
                        THEN [list[i] EXCEPT !.start = new_start - buf]
                        ELSE list[i]]
            ELSE list
    IN  IF end_idx + 1 <= Len(list)
        THEN LET new_end == with_start[end_idx + 1].start
             IN  [i \in 1..Len(list) |->
                    IF i \in start_idx..end_idx
                    THEN [with_start[i] EXCEPT
                            !.end = Min2(new_end, text_len)]
                    ELSE with_start[i]]
        ELSE with_start

\* Lines 106-114: the rewrite of one run start_idx..end_idx.
RepairRun(list, start_idx, end_idx, text_len, buf) ==
    LET with_start ==
            IF start_idx > 1
            THEN LET new_start == list[start_idx - 1].end
                 IN  [i \in 1..Len(list) |->
                        IF i \in start_idx..end_idx
                        THEN [list[i] EXCEPT !.start = Max2(new_start - buf, 0)]
                        ELSE list[i]]
            ELSE list
    IN  IF end_idx + 1 <= Len(list)
        THEN LET new_end == with_start[end_idx + 1].start
             IN  [i \in 1..Len(list) |->
                    IF i \in start_idx..end_idx
                    THEN [with_start[i] EXCEPT
                            !.end = Min2(new_end - 1, text_len)]
                    ELSE with_start[i]]
        ELSE with_start

\* Lines 96-117: the post-pass over the list from idx (1-based).
RECURSIVE RepairFrom(_, _, _, _)
RepairFrom(list, idx, text_len, buf) ==
    IF idx > Len(list) THEN list
    ELSE IF Failed(list[idx])
         THEN LET end_idx == RunEnd(list, idx)
              IN  RepairFrom(RepairRun(list, idx, end_idx, text_len, buf),
                             end_idx + 1, text_len, buf)
         ELSE RepairFrom(list, idx + 1, text_len, buf)

\* Lines 95-119.
PostPassRepair(list, text_len, buf) ==
    IF Len(list) > 1 THEN RepairFrom(list, 1, text_len, buf) ELSE list

\* _get_sentences_with_boundaries, given the tokenizer's sentences.
GetSentencesWithBoundaries(text, sentences, buf) ==
    PostPassRepair(LocateAll(text, sentences, 0, 0, buf), Len(text), buf)

(***************************************************************************)
(* Span recovery                                                           *)
(***************************************************************************)
DigitChar == <<"0", "1", "2", "3", "4", "5", "6", "7", "8", "9">>

\* str(n) for n >= 0
RECURSIVE Str(_)
Str(n) ==
    IF n < 10 THEN <<DigitChar[n + 1]>>
    ELSE Str(n \div 10) \o <<DigitChar[(n % 10) + 1]>>

\* Faulty variant: the counter is read before it is incremented.
TokenIdFromZero(n) == <<"T">> \o Str(n - 1)

\* 'T'+str(token_id)
TokenId(n) == <<"T">> \o Str(n)

\* Lines 189-243 for one label: how the label is resolved inside
\* [next_cursor, swb_end) and the span found.
\*   "exact"    line 223, "anchor" line 210, "sentinel" line 235,
\*   "dropped"  the whitespace branch that emits nothing.
ResolveLabel(input_text, text, next_cursor, swb_end) ==
    LET start == Find(input_text, text, next_cursor, swb_end)
        dropped == [kind |-> "dropped", start |-> -1, end |-> -1]
    IN  IF start = -1 /\ HasWhitespace(text)
        THEN LET tokens == SplitNonEmpty(text, Whitespace, <<>>)
             IN  IF Len(tokens) >= 2
                 THEN
                 LET first_token == tokens[1]
                     last_token == tokens[Len(tokens)]
                     first_pos == Find(input_text, first_token, next_cursor,
                                       swb_end)
                 IN  IF first_pos # -1
                     THEN
                     LET last_pos == Find(input_text, last_token,
                                          first_pos + Len(first_token),
                                          swb_end)
                     IN  IF last_pos # -1
                         THEN
                         LET boundary_start == first_pos
                             boundary_end == last_pos + Len(last_token)
                             extracted_text == Slice(input_text,
                                                     boundary_start,
                                                     boundary_end)
                         IN  IF CollapseWhitespace(extracted_text)
                                = CollapseWhitespace(text)
                             THEN [kind |-> "anchor",
                                   start |-> boundary_start,
                                   end |-> boundary_end]
                             ELSE dropped
                         ELSE dropped
                     ELSE dropped
                 ELSE dropped
        ELSE IF start # -1
             THEN [kind |-> "exact", start |-> start,
                   end |-> start + Len(text)]
             ELSE [kind |-> "sentinel", start |-> -1, end |-> -1]

\* Faulty variant: the token of a sentinel is sliced from the text as well.
EntityOfSlicedToken(input_text, label, r, token_id) ==
    [token_id |-> TokenId(token_id),
     label |-> label.value,
     start |-> r.start,
     end |-> r.end,
     token |-> Slice(input_text, r.start, r.end)]

\* The entity appended for a resolved label (lines 216, 228, 237).
EntityOf(input_text, label, r, token_id) ==
    [token_id |-> TokenId(token_id),
     label |-> label.value,
     start |-> r.start,
     end |-> r.end,
     token |-> IF r.kind = "sentinel" THEN label.text
               ELSE Slice(input_text, r.start, r.end)]

\* Lines 187-243: the labels of one sentence, from next_cursor and the
\* running token_id; returns the entities appended and the new token_id.
RECURSIVE ConvertLabels(_, _, _, _, _)
ConvertLabels(input_text, labels, swb_end, next_cursor, token_id) ==
    IF labels = <<>> THEN [items |-> <<>>, token_id |-> token_id]
    ELSE LET label == labels[1]
             r == ResolveLabel(input_text, label.text, next_cursor, swb_end)
         IN  IF r.kind = "dropped"
             THEN ConvertLabels(input_text, Tail(labels), swb_end,
                                next_cursor, token_id)
             ELSE
             LET rest == ConvertLabels(input_text, Tail(labels), swb_end,
                                       IF r.kind = "sentinel"
                                       THEN next_cursor ELSE r.end,
                                       token_id + 1)
             IN  [items |-> <<EntityOf(input_text, label, r, token_id + 1)>>
                            \o rest.items,
                  token_id |-> rest.token_id]

\* Lines 180-246: the loop over the sentences; token_id runs on across
\* the sentences of one input text.
RECURSIVE ConvertSentences(_, _, _, _)
ConvertSentences(input_text, model_output, labels_of, token_id) ==
    IF model_output = <<>> THEN <<>>
    ELSE LET swb == model_output[1]
             got == ConvertLabels(input_text, labels_of[1], swb.end,
                                  swb.start, token_id)
         IN  got.items \o ConvertSentences(input_text, Tail(model_output),
                                           Tail(labels_of), got.token_id)

\* _convert_flair_sentences_to_list_of_entity_dict and
\* _convert_flair_sentences_to_entity_items (the same code twice).
ConvertFlairSentences(input_text, model_output, labels_of) ==
    ConvertSentences(input_text, model_output, labels_of, 0)

(***************************************************************************)
(* Coarse consolidation                                                    *)
(***************************************************************************)
\* max_gap of are_entities_consecutive_generic
MaxGap == 4

\* re.match(separator_pattern, between_text): every character is in the
\* class (the class holds the newline, so '$' adds nothing).
MatchesSeparatorPattern(between_text) ==
    \A i \in 1..Len(between_text) : between_text[i] \in SeparatorChars

\* are_entities_consecutive_generic
AreEntitiesConsecutiveGeneric(current_entity, next_entity, input_text) ==
    IF next_entity.start < current_entity.end THEN FALSE
    ELSE IF next_entity.start = current_entity.end THEN TRUE
    ELSE LET between_text == Slice(input_text, current_entity.end,
                                   next_entity.start)
         IN  /\ MatchesSeparatorPattern(between_text)
             /\ Len(between_text) <= MaxGap

\* t is \d{1,2}\.\d{1,2}\.\d{2,4}\. exactly.
IsDateWithPeriod(t) ==
    \E d1 \in 1..2, d2 \in 1..2, d3 \in 2..4 :
        /\ Len(t) = d1 + d2 + d3 + 3
        /\ \A i \in 1..Len(t) :
              IF i \in {d1 + 1, d1 + d2 + 2, d1 + d2 + d3 + 3}
              THEN t[i] = "."
              ELSE t[i] \in Digits

\* Faulty variant: the year group accepts a single digit, \d{1,4}.
MatchesDatePatternShortYear(token) ==
    \E d1 \in 1..2, d2 \in 1..2, d3 \in 1..4 :
        /\ Len(token) = d1 + d2 + d3 + 3
        /\ \A i \in 1..Len(token) :
              IF i \in {d1 + 1, d1 + d2 + 2, d1 + d2 + d3 + 3}
              THEN token[i] = "."
              ELSE token[i] \in Digits

\* re.match(date_pattern, token): '$' matches at the end and also before
\* one trailing newline.
MatchesDatePattern(token) ==
    \/ IsDateWithPeriod(token)
    \/ /\ Len(token) > 0
       /\ token[Len(token)] = NL
       /\ IsDateWithPeriod(SubSeq(token, 1, Len(token) - 1))

\* The mapping tables of _convert_to_coarse_labeled_entities.
CodealltagMapping ==
    [FAMILY |-> "NAME", FEMALE |-> "NAME", MALE |-> "NAME",
     CITY |-> "LOCATION", STREET |-> "LOCATION", STREETNO |-> "LOCATION",
     ZIP |-> "LOCATION", EMAIL |-> "CONTACT", PHONE |-> "CONTACT",
     URL |-> "CONTACT", UFID |-> "ID", USER |-> "ID",
     ORG |-> "ORGANIZATION"]

GrasccoMapping ==
    [NAME_DOCTOR |-> "NAME", NAME_EXT |-> "NAME", NAME_OTHER |-> "NAME",
     NAME_PATIENT |-> "NAME", NAME_RELATIVE |-> "NAME",
     LOCATION_CITY |-> "LOCATION", LOCATION_COUNTRY |-> "LOCATION",
     LOCATION_OTHER |-> "LOCATION", LOCATION_STATE |-> "LOCATION",
     LOCATION_STREET |-> "LOCATION", LOCATION_ZIP |-> "LOCATION",
     CONTACT_EMAIL |-> "CONTACT", CONTACT_FAX |-> "CONTACT",
     CONTACT_PHONE |-> "CONTACT", CONTACT_URL |-> "CONTACT",
     NAME_USERNAME |-> "ID", LOCATION_HOSPITAL |-> "ORGANIZATION",
     LOCATION_ORGANIZATION |-> "ORGANIZATION"]

EmptyMapping == [x \in {} |-> ""]

FineToCoarseMapping(es) ==
    IF es = "codealltag" THEN CodealltagMapping
    ELSE IF es = "grascco" THEN GrasccoMapping
    ELSE EmptyMapping

SkipLabels(es) ==
    IF es = "grascco" THEN {"NAME_TITLE"} ELSE {}

\* Faulty variant: the mapping is not applied.
CoarseLabelUnmapped(mapping, fine_label) == fine_label

\* fine_to_coarse_mapping.get(fine_label, fine_label)
CoarseLabel(mapping, fine_label) ==
    IF fine_label \in DOMAIN mapping THEN mapping[fine_label] ELSE fine_label

\* One insertion into a list sorted by start, after the rows of equal start.
RECURSIVE InsertByStart(_, _)
InsertByStart(sorted, row) ==
    IF sorted = <<>> THEN <<row>>
    ELSE IF row.start < sorted[1].start THEN <<row>> \o sorted
         ELSE <<sorted[1]>> \o InsertByStart(Tail(sorted), row)

\* Faulty variant: the rows are left in the order they came in.
SortByStartKeepingOrder(rows) == rows

\* sort_values('Start'): rows of equal Start keep their order (what the
\* sort does on the short frames of one text).
RECURSIVE SortByStart(_)
SortByStart(rows) ==
    IF rows = <<>> THEN <<>>
    ELSE InsertByStart(SortByStart(SubSeq(rows, 1, Len(rows) - 1)),
                       rows[Len(rows)])

\* Lines 83-96: the rows relabelled.
MapLabels(rows, mapping) ==
    [i \in 1..Len(rows) |->
        [rows[i] EXCEPT !.label = CoarseLabel(mapping, rows[i].label)]]

\* Lines 83-94: entity_tracking, keyed by Token_ID (a later row of the
\* same Token_ID overwrites an earlier one).
EntityTracking(rows, mapping) ==
    [id \in {rows[i].token_id : i \in 1..Len(rows)} |->
        LET last == CHOOSE i \in 1..Len(rows) :
                       /\ rows[i].token_id = id
                       /\ \A k \in (i + 1)..Len(rows) : rows[k].token_id # id
        IN  [original_label |-> rows[last].label,
             original_token |-> rows[last].token,
             start |-> rows[last].start,
             end |-> rows[last].end,
             coarse_label |-> CoarseLabel(mapping, rows[last].label)]]

\* Lines 113-123: the index after the last member of the run that begins
\* at i, scanning from j.
RECURSIVE RunLimit(_, _, _, _)
RunLimit(mapped, input_text, current_coarse_label, j) ==
    IF /\ j <= Len(mapped)
       /\ mapped[j].label = current_coarse_label
       /\ AreEntitiesConsecutiveGeneric(mapped[j - 1], mapped[j], input_text)
    THEN RunLimit(mapped, input_text, current_coarse_label, j + 1)
    ELSE j

RECURSIVE JoinIds(_)
JoinIds(entities) ==
    IF entities = <<>> THEN <<>>
    ELSE entities[1].token_id \o JoinIds(Tail(entities))

RECURSIVE JoinTokens(_)
JoinTokens(entities) ==
    IF entities = <<>> THEN <<>>
    ELSE entities[1].token \o JoinTokens(Tail(entities))

\* Faulty variant: the merged token is the members' tokens joined, without the
\* separators between them.
MergedEntityJoinedTokens(consecutive_entities, input_text) ==
    LET first == consecutive_entities[1]
    IN  [token_id |-> JoinIds(consecutive_entities),
         label |-> first.label,
         start |-> first.start,
         end |-> consecutive_entities[Len(consecutive_entities)].end,
         token |-> JoinTokens(consecutive_entities)]

\* Lines 127-132: the entity that stands for a run of more than one.
MergedEntity(consecutive_entities, input_text) ==
    LET first == consecutive_entities[1]
        end == consecutive_entities[Len(consecutive_entities)].end
    IN  [token_id |-> JoinIds(consecutive_entities),
         label |-> first.label,
         start |-> first.start,
         end |-> end,
         token |-> Slice(input_text, first.start, end)]

\* Faulty variant: the scan resumes one row after the row that ended the
\* run (i = j + 1).
RECURSIVE RunsFromSkippingOne(_, _, _)
RunsFromSkippingOne(mapped, input_text, i) ==
    IF i > Len(mapped) THEN <<>>
    ELSE LET j == RunLimit(mapped, input_text, mapped[i].label, i + 1)
         IN  <<SubSeq(mapped, i, j - 1)>>
             \o RunsFromSkippingOne(mapped, input_text, j + 1)

\* Lines 105-157: the runs of the sorted, mapped rows from index i, each
\* run a sequence of consecutive rows.
RECURSIVE RunsFrom(_, _, _)
RunsFrom(mapped, input_text, i) ==
    IF i > Len(mapped) THEN <<>>
    ELSE LET j == RunLimit(mapped, input_text, mapped[i].label, i + 1)
         IN  <<SubSeq(mapped, i, j - 1)>> \o RunsFrom(mapped, input_text, j)

\* Lines 125-155: merged_entities.
MergedEntities(runs, input_text) ==
    [r \in 1..Len(runs) |->
        IF Len(runs[r]) > 1 THEN MergedEntity(runs[r], input_text)
        ELSE runs[r][1]]

\* Faulty variant: a constituent is recorded with the coarse label of its
\* run in place of its own fine label.
MergedTrackingCoarseLabels(runs, input_text, entity_tracking) ==
    LET out == MergedEntities(runs, input_text)
    IN  [id \in {out[r].token_id : r \in 1..Len(runs)} |->
            LET r == CHOOSE k \in 1..Len(runs) : out[k].token_id = id
            IN  IF Len(runs[r]) > 1
                THEN [coarse_label |-> runs[r][1].label,
                      merged_token |-> out[r].token,
                      start |-> out[r].start,
                      end |-> out[r].end,
                      constituent_entities |->
                          [m \in 1..Len(runs[r]) |->
                              LET info == entity_tracking[runs[r][m].token_id]
                              IN  [original_label |-> runs[r][m].label,
                                   original_token |-> info.original_token,
                                   start |-> info.start,
                                   end |-> info.end]]]
                ELSE entity_tracking[id]]

\* Lines 134-155: merged_tracking.
MergedTracking(runs, input_text, entity_tracking) ==
    LET out == MergedEntities(runs, input_text)
    IN  [id \in {out[r].token_id : r \in 1..Len(runs)} |->
            LET r == CHOOSE k \in 1..Len(runs) :
                        /\ out[k].token_id = id
                        /\ \A m \in (k + 1)..Len(runs) : out[m].token_id # id
            IN  IF Len(runs[r]) > 1
                THEN [coarse_label |-> runs[r][1].label,
                      merged_token |-> out[r].token,
                      start |-> out[r].start,
                      end |-> out[r].end,
                      constituent_entities |->
                          [m \in 1..Len(runs[r]) |->
                              LET info == entity_tracking[runs[r][m].token_id]
                              IN  [original_label |-> info.original_label,
                                   original_token |-> info.original_token,
                                   start |-> info.start,
                                   end |-> info.end]]]
                ELSE entity_tracking[id]]

\* Faulty variant: the token is trimmed and End is left as it was.
TrimRowsKeepEnd(frame, row) ==
    [i \in 1..Len(frame) |->
        IF frame[i].token_id = row.token_id
        THEN [frame[i] EXCEPT
                !.token = SubSeq(row.token, 1, Len(row.token) - 1)]
        ELSE frame[i]]

\* Lines 174-176 for one row of the snapshot: every row of the frame with
\* that Token_ID gets the trimmed token and End - 1.
TrimRows(frame, row) ==
    [i \in 1..Len(frame) |->
        IF frame[i].token_id = row.token_id
        THEN [frame[i] EXCEPT
                !.token = SubSeq(row.token, 1, Len(row.token) - 1),
                !.end = frame[i].end - 1]
        ELSE frame[i]]

\* Lines 170-176: the loop over the rows as they were at its start.
RECURSIVE DateLoop(_, _, _)
DateLoop(frame, snapshot, k) ==
    IF k > Len(snapshot) THEN frame
    ELSE LET row == snapshot[k]
         IN  IF row.label = "DATE" /\ MatchesDatePattern(row.token)
             THEN DateLoop(TrimRows(frame, row), snapshot, k + 1)
             ELSE DateLoop(frame, snapshot, k + 1)

\* Faulty variant: the frame is returned as it came.
HandleSpecialCaseSkipped(annotation_df) == annotation_df

\* _handle_special_case_of_date_entities
HandleSpecialCaseOfDateEntities(annotation_df) ==
    DateLoop(annotation_df, annotation_df, 1)

\* Faulty variant: the filter on Start is missing.
NotSentinelUnfiltered(row) == TRUE

\* Line 71: annotation_df['Start'] != -1
NotSentinel(row) == row.start # -1

\* Lines 68-80: the rows that survive the filters, sorted by Start.
SurvivingSorted(annotation_df, skip_labels) ==
    LET NotSkipped(row) == row.label \notin skip_labels
        resolved == SelectSeq(annotation_df, NotSentinel)
    IN  SortByStart(IF skip_labels # {}
                    THEN SelectSeq(resolved, NotSkipped)
                    ELSE resolved)

\* The frames of one call are objects of a heap, a sequence of row
\* sequences indexed by reference: a statement that builds a frame adds an
\* object, a statement that writes into a frame changes the object it
\* refers to.
NewFrame(heap, rows) == Append(heap, rows)

\* Faulty variant: the rows that fail the test are dropped from the frame
\* itself.
SelectResolvedInPlace(heap, ref) ==
    Append([heap EXCEPT ![ref] = SelectSeq(heap[ref], NotSentinel)],
           SelectSeq(heap[ref], NotSentinel))

\* Line 71, annotation_df[annotation_df['Start'] != -1]: boolean indexing
\* builds a new frame.
SelectResolved(heap, ref) ==
    NewFrame(heap, SelectSeq(heap[ref], NotSentinel))

\* .copy()
FrameCopy(heap, ref) == NewFrame(heap, heap[ref])

\* Line 76, annotation_df[~annotation_df['Label'].isin(skip_labels)]
SelectNotSkipped(heap, ref, skip_labels) ==
    LET NotSkipped(row) == row.label \notin skip_labels
    IN  NewFrame(heap, SelectSeq(heap[ref], NotSkipped))

\* Line 80, .sort_values('Start').reset_index(drop=True) on the copy.
SortedFrame(heap, ref) == NewFrame(heap, SortByStart(heap[ref]))

\* A write into the frame at ref (mapped_df.loc[...] = ...,
\* annotation_df.loc[...] -= 1).
WriteFrame(heap, ref, rows) == [heap EXCEPT ![ref] = rows]

\* map_to_coarse_labels on the heap that holds the caller's frame at
\* reference 1: the heap when the call returns and the reference returned.
MapToCoarseLabelsFrames(annotation_df, input_text, mapping, skip_labels, merge) ==
    LET h0 == <<annotation_df>>
        h1 == FrameCopy(SelectResolved(h0, 1), 2)
        h2 == IF skip_labels # {} THEN SelectNotSkipped(h1, 3, skip_labels)
              ELSE h1
        r2 == Len(h2)
        h3 == SortedFrame(FrameCopy(h2, r2), r2 + 1)
        r3 == Len(h3)
        h4 == WriteFrame(h3, r3, MapLabels(h3[r3], mapping))
        h5 == NewFrame(h4, MergedEntities(RunsFrom(h4[r3], input_text, 1),
                                          input_text))
        r5 == Len(h5)
    IN  IF annotation_df = <<>> THEN [heap |-> h0, returned |-> 1]
        ELSE IF h1[3] = <<>> THEN [heap |-> h1, returned |-> 3]
        ELSE IF h2[r2] = <<>> THEN [heap |-> h2, returned |-> r2]
        ELSE IF ~merge
        THEN [heap |-> WriteFrame(h4, r3,
                           HandleSpecialCaseOfDateEntities(h4[r3])),
              returned |-> r3]
        ELSE [heap |-> WriteFrame(h5, r5,
                           HandleSpecialCaseOfDateEntities(h5[r5])),
              returned |-> r5]

\* map_to_coarse_labels: [df |-> the frame returned, tracking |-> the
\* dictionary returned, input |-> the caller's frame after the call].
MapToCoarseLabels(annotation_df, input_text, mapping, skip_labels, merge) ==
    LET frames == MapToCoarseLabelsFrames(annotation_df, input_text, mapping,
                                          skip_labels, merge)
        sorted == SurvivingSorted(annotation_df, skip_labels)
        mapped_df == MapLabels(sorted, mapping)
        entity_tracking == EntityTracking(sorted, mapping)
        runs == RunsFrom(mapped_df, input_text, 1)
    IN  [df |-> frames.heap[frames.returned],
         tracking |-> IF sorted = <<>> THEN <<>>
                      ELSE IF ~merge THEN entity_tracking
                      ELSE MergedTracking(runs, input_text, entity_tracking),
         input |-> frames.heap[1]]

(***************************************************************************)
(* Inputs: texts, tokenizer output, predicted labels                       *)
(***************************************************************************)
MaxSentences == 2

MaxLabels == 2

\* A tokenizer token (SoMaJo Token: text, space_after, last_in_sentence).
Tok(text, space_after) ==
    [text |-> text, space_after |-> space_after, last_in_sentence |-> FALSE]

\* A tokenizer sentence: its last token, and only that one, is marked
\* last_in_sentence.
Sent(tokens) ==
    [i \in 1..Len(tokens) |->
        [tokens[i] EXCEPT !.last_in_sentence = (i = Len(tokens))]]

Date == <<"1", ".", "2", ".", "2", "0", ".">>

\* A date with a one-digit year, which the date pattern does not match.
ShortYear == <<"1", ".", "2", ".", "2", ".">>

RECURSIVE Rep(_, _)
Rep(c, n) == IF n = 0 THEN <<>> ELSE <<c>> \o Rep(c, n - 1)

\* A text in which "a" lies more than DefaultBuffer characters from the
\* start and from the end.
LongText == Rep(".", 16) \o <<"a">> \o Rep(".", 15) \o <<"b">>

\* Input texts (non-blank, as validate_input_texts requires) with the
\* words "a" and "b" ...
WordTexts ==
    { <<"a", SP, "b">>,
      <<"a", "b">>,
      <<"a", NL, "b">>,
      <<"b", SP, "a", SP, "b">>,
      <<"a", "c", "b">>,
      <<"a", SP, ".", "-", SP, "b">>,
      <<"a", SP, ",", ".", "-", SP, "b">>,
      LongText }

\* ... and with a date.
DateTexts ==
    { Date,
      Date \o <<SP, "a">>,
      ShortYear }

\* A date whose sentence ends DefaultBuffer characters after the date's
\* fifth character: the window of a failed sentence that follows begins
\* inside the date.
DateInLongSentence == Date \o Rep("c", 12) \o <<"b">>

OverlapTexts == { DateInLongSentence }

\* A text whose words "a" and "b" are separated by a newline and followed
\* by one more character.
NewlineTexts == { <<"a", NL, "b", "c">> }

Texts == WordTexts \cup DateTexts \cup OverlapTexts \cup NewlineTexts

\* Sentences the tokenizer may emit for a text of words: tokens of the
\* text, tokens the tokenizer has normalised to something the text does
\* not hold ("x"), and a token that is the tab placeholder.
WordSentences ==
    { Sent(<<Tok(<<"a">>, TRUE)>>),
      Sent(<<Tok(<<"b">>, FALSE)>>),
      Sent(<<Tok(<<"a">>, TRUE), Tok(<<"b">>, TRUE)>>),
      Sent(<<Tok(<<"a">>, FALSE), Tok(<<"b">>, FALSE)>>),
      Sent(<<Tok(<<"x">>, TRUE), Tok(<<"b">>, FALSE)>>),
      Sent(<<Tok(<<"a">>, TRUE), Tok(Placeholder, TRUE),
             Tok(<<"b">>, FALSE)>>) }

\* Sentences the tokenizer may emit for a text with a date.
DateSentences ==
    { Sent(<<Tok(<<"a">>, TRUE)>>),
      Sent(<<Tok(Date, TRUE)>>),
      Sent(<<Tok(ShortYear, TRUE)>>),
      Sent(<<Tok(<<"1", ".", "2", ".">>, FALSE),
             Tok(<<"2", "0", ".">>, TRUE)>>) }

\* Sentences the tokenizer may emit for the date in a long sentence: the
\* sentence itself, and one whose first token the text does not hold.
OverlapSentences ==
    { Sent(<<Tok(Date, TRUE), Tok(<<"b">>, FALSE)>>),
      Sent(<<Tok(<<"x">>, TRUE), Tok(<<".">>, FALSE)>>) }

\* Sentences the tokenizer may emit for the text with a newline: one whose
\* first token the text does not hold, followed by the words of the text,
\* and the first word alone.
NewlineSentences ==
    { Sent(<<Tok(<<"x">>, TRUE), Tok(<<"a">>, TRUE), Tok(<<"b">>, FALSE)>>),
      Sent(<<Tok(<<"a">>, TRUE), Tok(<<"b">>, FALSE)>>),
      Sent(<<Tok(<<"a">>, TRUE)>>) }

RECURSIVE SeqsUpTo(_, _)
SeqsUpTo(S, n) ==
    IF n = 0 THEN {<<>>}
    ELSE LET shorter == SeqsUpTo(S, n - 1)
         IN  shorter \cup {Append(q, e) : q \in shorter, e \in S}

\* The tokenizer's output for a text: one to MaxSentences sentences.
Tokenizations(text) ==
    SeqsUpTo(IF text \in DateTexts THEN DateSentences
             ELSE IF text \in OverlapTexts THEN OverlapSentences
             ELSE IF text \in NewlineTexts THEN NewlineSentences
             ELSE WordSentences,
             MaxSentences) \ {<<>>}

\* The input texts one instance is given in SpecRepeat.
MaxTexts == 2

LabelValues == {"CITY", "STREET", "DATE", "NAME_TITLE", "UNKNOWN_X"}

EntitySets == {"codealltag", "grascco", "other"}

\* The text of the span of tokens i..j of a sentence: the tokens joined as
\* the sentence string joins them, without the space after the last one.
SpanText(sentence, i, j) ==
    LET joined == PotentialSentence(
                      [k \in 1..(j - i + 1) |->
                          [sentence[i + k - 1] EXCEPT
                              !.last_in_sentence = FALSE]])
    IN  IF joined # <<>> /\ joined[Len(joined)] = SP
        THEN SubSeq(joined, 1, Len(joined) - 1)
        ELSE joined

\* The label sequences the tagger may return for one sentence: spans of
\* its tokens in document order, none overlapping another, each with a
\* label value.
RECURSIVE SpanSeqs(_, _, _)
SpanSeqs(n, from, k) ==
    IF k = 0 THEN {<<>>}
    ELSE {<<>>} \cup
         UNION {{<<sp>> \o rest : rest \in SpanSeqs(n, sp[2] + 1, k - 1)} :
                sp \in {q \in (from..n) \X (from..n) : q[1] <= q[2]}}

RECURSIVE Valued(_, _)
Valued(sentence, spans) ==
    IF spans = <<>> THEN {<<>>}
    ELSE {<<[value |-> v,
             text |-> SpanText(sentence, spans[1][1], spans[1][2])]>>
          \o rest :
          v \in LabelValues, rest \in Valued(sentence, Tail(spans))}

LabelsFor(sentence, budget) ==
    {ls \in UNION {Valued(sentence, spans) :
                   spans \in SpanSeqs(Len(sentence), 1, budget)} :
        \A i \in 1..Len(ls) :
            /\ ls[i].text # <<>>
            /\ ls[i].text[1] \notin Whitespace
            /\ ls[i].text[Len(ls[i].text)] \notin Whitespace}

\* The tagger's output for the sentences of a text: at most budget labels
\* in all.
RECURSIVE Predictions(_, _)
Predictions(sentences, budget) ==
    IF sentences = <<>> THEN {<<>>}
    ELSE UNION {{<<h>> \o t :
                   t \in Predictions(Tail(sentences), budget - Len(h))} :
                h \in LabelsFor(sentences[1], budget)}

(***************************************************************************)
(* The pipeline of one input text                                          *)
(***************************************************************************)
Init ==
    /\ pc = "idle"
    /\ original_text = <<>>
    /\ buffer = DefaultBuffer
    /\ tokenized = <<>>
    /\ swbs = <<>>
    /\ predicted = <<>>
    /\ items = <<>>
    /\ entity_set_id = ""
    /\ merge_consecutive = FALSE
    /\ coarse = <<>>
    /\ tracking = <<>>
    /\ again = <<>>
    /\ loader = <<>>
    /\ service = <<>>
    /\ seen = {}
    /\ anchor = <<>>
    /\ http = <<>>

\* Faulty variant: the cursor is kept on the instance and the search of a
\* text begins where the last text ended.
BoundariesCarryingCursor ==
    /\ pc = "idle"
    /\ \E text \in Texts : \E sentences \in Tokenizations(text) :
          LET last == IF seen = {} THEN 0
                      ELSE LET r == CHOOSE r \in seen : TRUE
                           IN  r.swbs[Len(r.swbs)].end
          IN  /\ original_text' = text
              /\ tokenized' = sentences
              /\ swbs' = PostPassRepair(
                             LocateAll(text, sentences, last, last, buffer),
                             Len(text), buffer)
    /\ pc' = "bounded"
    /\ UNCHANGED <<buffer, predicted, items, entity_set_id,
                   merge_consecutive, coarse, tracking>>
    /\ UNCHANGED <<again, seen, anchor, http>>
    /\ UNCHANGED <<loader, service>>

\* infer, line 51: _get_sentences_with_boundaries(input_text) on the
\* tokenizer's sentences of the text.
Boundaries ==
    /\ pc = "idle"
    /\ \E text \in Texts : \E sentences \in Tokenizations(text) :
          /\ original_text' = text
          /\ tokenized' = sentences
          /\ swbs' = GetSentencesWithBoundaries(text, sentences, buffer)
    /\ pc' = "bounded"
    /\ UNCHANGED <<buffer, predicted, items, entity_set_id,
                   merge_consecutive, coarse, tracking>>
    /\ UNCHANGED <<again, seen, anchor, http>>
    /\ UNCHANGED <<loader, service>>

\* infer, lines 53-54 / detect_entities, line 41: the tagger labels the
\* sentences and the labels are converted to entities.
SpanRecovery ==
    /\ pc = "bounded"
    /\ \E labels_of \in Predictions(tokenized, MaxLabels) :
          /\ predicted' = labels_of
          /\ items' = ConvertFlairSentences(original_text, swbs, labels_of)
    /\ pc' = "recovered"
    /\ UNCHANGED <<original_text, buffer, tokenized, swbs, entity_set_id,
                   merge_consecutive, coarse, tracking>>
    /\ UNCHANGED <<again, seen, anchor, http>>
    /\ UNCHANGED <<loader, service>>

\* _convert_to_coarse_labeled_entities (which passes merge_consecutive =
\* True) and map_to_coarse_labels called with either flag.
CoarseConsolidation ==
    /\ pc = "recovered"
    /\ \E es \in EntitySets, merge \in BOOLEAN :
          LET out == MapToCoarseLabels(items, original_text,
                                       FineToCoarseMapping(es),
                                       SkipLabels(es), merge)
          IN  /\ entity_set_id' = es
              /\ merge_consecutive' = merge
              /\ coarse' = out.df
              /\ tracking' = out.tracking
              /\ items' = out.input
    /\ pc' = "coarse"
    /\ UNCHANGED <<original_text, buffer, tokenized, swbs, predicted>>
    /\ UNCHANGED <<again, seen, anchor, http>>
    /\ UNCHANGED <<loader, service>>

\* map_to_coarse_labels applied to the frame it returned with merging
\* enabled: the same text, mapping, skip_labels and flag.
Reconsolidation ==
    /\ pc = "coarse"
    /\ merge_consecutive
    /\ LET out == MapToCoarseLabels(coarse, original_text,
                                    FineToCoarseMapping(entity_set_id),
                                    SkipLabels(entity_set_id), TRUE)
       IN  /\ again' = out.df
           /\ coarse' = out.input
    /\ pc' = "reconsolidated"
    /\ UNCHANGED <<original_text, buffer, tokenized, swbs, predicted, items,
                   entity_set_id, merge_consecutive, tracking>>
    /\ UNCHANGED <<seen, anchor, http>>
    /\ UNCHANGED <<loader, service>>

\* detect_entities, lines 37-38: the next input text is given to the same
\* inference maker; what the instance has returned so far is kept in seen.
NextInputText ==
    /\ pc = "bounded"
    /\ Cardinality(seen) < MaxTexts - 1
    /\ seen' = seen \cup {[original_text |-> original_text,
                           tokenized |-> tokenized,
                           buffer |-> buffer,
                           swbs |-> swbs]}
    /\ pc' = "idle"
    /\ original_text' = <<>>
    /\ tokenized' = <<>>
    /\ swbs' = <<>>
    /\ UNCHANGED <<buffer, predicted, items, entity_set_id,
                   merge_consecutive, coarse, tracking>>
    /\ UNCHANGED <<again, anchor, http>>
    /\ UNCHANGED <<loader, service>>

Next ==
    Boundaries \/ SpanRecovery \/ CoarseConsolidation \/ Reconsolidation

Spec == Init /\ [][Next]_vars

\* Boundary reconstruction of one text after another on one instance.
NextRepeat == Boundaries \/ NextInputText

SpecRepeat == Init /\ [][NextRepeat]_vars

(***************************************************************************)
(* The detect_entities request: configuration, exceptions, handlers        *)
(***************************************************************************)
EntitySetIds == {"codealltag", "grascco", "unknown_set"}

ModelIds == {"m1", "m2"}

\* A supported model of an entity set: its model_type, and whether its
\* requirements were satisfied when the registry was loaded.
ModelCfgs == [model_type : {"NER", "OTHER"}, loaded : BOOLEAN]

ModelTables == UNION {[ms -> ModelCfgs] : ms \in SUBSET ModelIds}

\* The entity sets of the configuration with their supported models.
Configs ==
    UNION {[es -> ModelTables] : es \in SUBSET {"codealltag", "grascco"}}

Requests == [entity_set_id : EntitySetIds, model_id : ModelIds]

NoException == [cls |-> "", message |-> <<>>]

NoResponse == [status_code |-> 0, error |-> "", message |-> <<>>]

\* The classes of core.exceptions and domain.exceptions that a request can
\* raise, each with its bases in method resolution order.
Mro(cls) ==
    IF cls = "core.EntitySetNotFoundException"
    THEN <<cls, "core.ResourceNotFoundException", "core.BaseException",
           "Exception">>
    ELSE IF cls = "core.ModelNotFoundException"
    THEN <<cls, "core.ResourceNotFoundException", "core.BaseException",
           "Exception">>
    ELSE IF cls = "domain.UnsupportedOperationForModel"
    THEN <<cls, "domain.ConfigurationError", "domain.RedaktoException",
           "Exception">>
    ELSE IF cls = "domain.PredictionError"
    THEN <<cls, "domain.RedaktoException", "Exception">>
    ELSE <<cls, "Exception">>

IsInstance(ex, classes) ==
    \E i \in 1..Len(Mro(ex.cls)) : Mro(ex.cls)[i] \in classes

EntitySetNotFoundException(es_id) ==
    [cls |-> "core.EntitySetNotFoundException",
     message |-> <<"Entity set", es_id, "not found">>]

ModelNotFoundException(es_id, model_id) ==
    [cls |-> "core.ModelNotFoundException",
     message |-> <<"Model", model_id, "not found for entity set",
                   es_id>>]

UnsupportedOperationForModel(es_id, model_id) ==
    [cls |-> "domain.UnsupportedOperationForModel",
     message |-> <<"Unsupported operation requested", model_id,
                   es_id>>]

\* PredictionError(message=str(e))
PredictionError(e) ==
    [cls |-> "domain.PredictionError", message |-> e.message]

\* _load_model_registry: every configured entity set, with the models
\* whose requirements were satisfied.
ModelsRegistry(config) ==
    [es \in DOMAIN config |->
        {m \in DOMAIN config[es] : config[es][m].loaded}]

\* get_model_config: the exception raised, or the model_type.
GetModelConfig(config, es_id, model_id) ==
    IF es_id \notin DOMAIN config
    THEN [raised |-> EntitySetNotFoundException(es_id),
          model_type |-> ""]
    ELSE IF model_id \notin DOMAIN config[es_id]
    THEN [raised |-> ModelNotFoundException(es_id, model_id),
          model_type |-> ""]
    ELSE [raised |-> NoException,
          model_type |-> config[es_id][model_id].model_type]

\* get_model_inference_maker: the exception raised, if any.
GetModelInferenceMaker(registry, es_id, model_id) ==
    IF es_id \notin DOMAIN registry
    THEN EntitySetNotFoundException(es_id)
    ELSE IF model_id \notin registry[es_id]
    THEN ModelNotFoundException(es_id, model_id)
    ELSE NoException

\* PredictionService.detect_entities, lines 29-47: the exception raised,
\* and whether infer was called.
ServiceOutcome(config, request) ==
    LET cfg == GetModelConfig(config, request.entity_set_id,
                              request.model_id)
        maker == GetModelInferenceMaker(ModelsRegistry(config),
                                        request.entity_set_id,
                                        request.model_id)
    IN  IF cfg.raised # NoException
        THEN [raised |-> cfg.raised, inferred |-> FALSE]
        ELSE IF cfg.model_type # "NER"
        THEN [raised |-> UnsupportedOperationForModel(
                             request.entity_set_id, request.model_id),
              inferred |-> FALSE]
        ELSE IF maker # NoException
        THEN [raised |-> maker, inferred |-> FALSE]
        ELSE [raised |-> NoException, inferred |-> TRUE]

\* The classes the route re-raises (predict_routes.py, line 49).
RouteReraised ==
    {"domain.EntitySetNotFoundError", "domain.ModelNotFoundError",
     "domain.UnsupportedOperationForModel"}

\* The handlers app.py registers, lines 87-92: the status code by class.
ExceptionHandlers ==
    [x \in {"core.ConfigurationException", "core.PredictionException",
            "pydantic.ValidationError", "fastapi.RequestValidationError",
            "core.ResourceNotFoundException", "Exception"} |->
        IF x = "core.ResourceNotFoundException" THEN 404
        ELSE IF x \in {"pydantic.ValidationError",
                       "fastapi.RequestValidationError"} THEN 422
        ELSE 500]

\* The handler of the first class of the exception's bases that has one.
HandlerClass(ex) ==
    LET mro == Mro(ex.cls)
        first == MinOf({i \in 1..Len(mro) : mro[i] \in DOMAIN ExceptionHandlers})
    IN  mro[first]

\* The JSON response of the handler: generic_exception_handler answers
\* with a fixed message, the others with the exception's message.
ResponseOf(ex) ==
    LET h == HandlerClass(ex)
    IN  [status_code |-> ExceptionHandlers[h],
         error |-> ex.cls,
         message |-> IF h = "Exception"
                     THEN <<"An unexpected error occurred.">>
                     ELSE ex.message]

InitRequest ==
    /\ pc = "idle"
    /\ original_text = <<>>
    /\ buffer = DefaultBuffer
    /\ tokenized = <<>>
    /\ swbs = <<>>
    /\ predicted = <<>>
    /\ items = <<>>
    /\ entity_set_id = ""
    /\ merge_consecutive = FALSE
    /\ coarse = <<>>
    /\ tracking = <<>>
    /\ again = <<>>
    /\ loader = <<>>
    /\ service = <<>>
    /\ seen = {}
    /\ anchor = <<>>
    /\ \E config \in Configs, request \in Requests :
          http = [phase |-> "received", config |-> config,
                  request |-> request, raised |-> NoException,
                  inferred |-> FALSE, response |-> NoResponse]

\* PredictionService.detect_entities runs for the request.
ServiceDetectEntities ==
    /\ http # <<>>
    /\ http.phase = "received"
    /\ LET out == ServiceOutcome(http.config, http.request)
       IN  http' = [http EXCEPT !.phase = "service",
                                !.raised = out.raised,
                                !.inferred = out.inferred]
    /\ UNCHANGED <<pc, original_text, buffer, tokenized, swbs, predicted,
                   items, entity_set_id, merge_consecutive, coarse,
                   tracking, again, seen, anchor>>
    /\ UNCHANGED <<loader, service>>

\* The route's try/except, lines 47-52.
RouteDetectEntities ==
    /\ http # <<>>
    /\ http.phase = "service"
    /\ http' = [http EXCEPT
                  !.phase = "route",
                  !.raised = IF http.raised = NoException
                                \/ IsInstance(http.raised, RouteReraised)
                             THEN http.raised
                             ELSE PredictionError(http.raised)]
    /\ UNCHANGED <<pc, original_text, buffer, tokenized, swbs, predicted,
                   items, entity_set_id, merge_consecutive, coarse,
                   tracking, again, seen, anchor>>
    /\ UNCHANGED <<loader, service>>

\* The response is returned, or the exception handler registered for the
\* raised exception answers.
AnswerRequest ==
    /\ http # <<>>
    /\ http.phase = "route"
    /\ http' = [http EXCEPT
                  !.phase = "answered",
                  !.response = IF http.raised = NoException
                               THEN [status_code |-> 200, error |-> "",
                                     message |-> <<>>]
                               ELSE ResponseOf(http.raised)]
    /\ UNCHANGED <<pc, original_text, buffer, tokenized, swbs, predicted,
                   items, entity_set_id, merge_consecutive, coarse,
                   tracking, again, seen, anchor>>
    /\ UNCHANGED <<loader, service>>

NextRequest ==
    ServiceDetectEntities \/ RouteDetectEntities \/ AnswerRequest

SpecRequest == InitRequest /\ [][NextRequest]_vars

(***************************************************************************)
(* One anchor search on its own                                            *)
(***************************************************************************)
MaxAnchorText == 5

MaxAnchorSentence == 4

\* The strings over an alphabet of length 1..n.
RECURSIVE Strings(_, _)
Strings(alphabet, n) ==
    IF n = 0 THEN {}
    ELSE LET shorter == Strings(alphabet, n - 1)
         IN  {<<c>> : c \in alphabet} \cup shorter
             \cup {Append(w, c) : w \in shorter, c \in alphabet}

\* "a", then n spaces, then "b".
GapText(n) == <<"a">> \o Rep(SP, n) \o <<"b">>

\* Texts given to the anchor search: the non-blank strings over a, b and
\* the space, and two in which the last token lies at and just beyond
\* the end of the search range.
AnchorTexts ==
    {t \in Strings({"a", "b", SP}, MaxAnchorText) :
        \E i \in 1..Len(t) : t[i] # SP}
    \cup {GapText(DefaultBuffer + 1), GapText(DefaultBuffer + 2)}

\* Sentence strings as lines 82-85 build them from tokens of a and b:
\* no space at either end.
AnchorSentences ==
    {w \in Strings({"a", "b", SP}, MaxAnchorSentence) :
        w[1] # SP /\ w[Len(w)] # SP}

InitAnchor ==
    /\ pc = "idle"
    /\ buffer = DefaultBuffer
    /\ tokenized = <<>>
    /\ swbs = <<>>
    /\ predicted = <<>>
    /\ items = <<>>
    /\ entity_set_id = ""
    /\ merge_consecutive = FALSE
    /\ coarse = <<>>
    /\ tracking = <<>>
    /\ again = <<>>
    /\ loader = <<>>
    /\ service = <<>>
    /\ seen = {}
    /\ http = <<>>
    /\ original_text \in AnchorTexts
    /\ \E sentence \in AnchorSentences, offset \in 0..Len(original_text) :
          anchor = [somajo_tokenized_sentence |-> sentence,
                    offset |-> offset, returned |-> FALSE,
                    start_index |-> 0, final_index |-> 0]

\* _get_potential_sentence_boundary(original_text,
\* somajo_tokenized_sentence, offset, buffer) is called and returns.
AnchorSearch ==
    /\ anchor # <<>>
    /\ ~anchor.returned
    /\ LET found == GetPotentialSentenceBoundary(
                        original_text, anchor.somajo_tokenized_sentence,
                        anchor.offset, buffer)
       IN  anchor' = [anchor EXCEPT !.returned = TRUE,
                                    !.start_index = found[1],
                                    !.final_index = found[2]]
    /\ UNCHANGED <<pc, original_text, buffer, tokenized, swbs, predicted,
                   items, entity_set_id, merge_consecutive, coarse,
                   tracking, again, seen, http>>
    /\ UNCHANGED <<loader, service>>

NextAnchor == AnchorSearch

SpecAnchor == InitAnchor /\ [][NextAnchor]_vars

(***************************************************************************)
(* Boundary reconstruction on its own, for longer tokenizer outputs        *)
(***************************************************************************)
MaxRepairSentences == 3

\* A text in which "a" lies DefaultBuffer characters from the start, one
\* "b" before it and one more than DefaultBuffer characters after it.
RetryText ==
    <<".", "b">> \o Rep(".", 13) \o <<"a">> \o Rep(".", 17) \o <<"b">>

InitReconstruct ==
    /\ pc = "tokenized"
    /\ buffer = DefaultBuffer
    /\ swbs = <<>>
    /\ predicted = <<>>
    /\ items = <<>>
    /\ entity_set_id = ""
    /\ merge_consecutive = FALSE
    /\ coarse = <<>>
    /\ tracking = <<>>
    /\ again = <<>>
    /\ loader = <<>>
    /\ service = <<>>
    /\ seen = {}
    /\ anchor = <<>>
    /\ http = <<>>
    /\ original_text \in WordTexts \cup {RetryText}
    /\ tokenized \in SeqsUpTo(WordSentences, MaxRepairSentences) \ {<<>>}

\* _get_sentences_with_boundaries(original_text) on the tokenizer's
\* sentences of the text.
Reconstruct ==
    /\ pc = "tokenized"
    /\ swbs' = GetSentencesWithBoundaries(original_text, tokenized, buffer)
    /\ pc' = "bounded"
    /\ UNCHANGED <<original_text, buffer, tokenized, predicted, items,
                   entity_set_id, merge_consecutive, coarse, tracking,
                   again, seen, anchor, http>>
    /\ UNCHANGED <<loader, service>>

NextReconstruct == Reconstruct

SpecReconstruct == InitReconstruct /\ [][NextReconstruct]_vars

(***************************************************************************)
(* CachedModelLoader.load, called by the threads that serve requests       *)
(***************************************************************************)
\* The loaders the registry holds, one per model.
Loaders == {"l1", "l2"}

\* Threads of the server's pool: detect_entities is a plain def route, and
\* each request runs infer, hence load, on a thread of the pool.
Threads == {"t1", "t2"}

\* The load() calls of one run.
MaxCalls == 4

\* _model = None
NoModel == [of |-> "", n |-> 0]

NotCalling == [at |-> "idle", self |-> "", ran_load |-> FALSE,
               after_success |-> FALSE]

NoReturn == [self |-> "", model |-> NoModel, raised |-> FALSE,
             ran_load |-> FALSE, after_success |-> FALSE]

\* The registry is built: every loader has _model = None (the class
\* attribute) and no thread is inside load().
InitLoader ==
    /\ pc = "idle"
    /\ original_text = <<>>
    /\ buffer = DefaultBuffer
    /\ tokenized = <<>>
    /\ swbs = <<>>
    /\ predicted = <<>>
    /\ items = <<>>
    /\ entity_set_id = ""
    /\ merge_consecutive = FALSE
    /\ coarse = <<>>
    /\ tracking = <<>>
    /\ again = <<>>
    /\ seen = {}
    /\ anchor = <<>>
    /\ http = <<>>
    /\ service = <<>>
    /\ loader = [model |-> [l \in Loaders |-> NoModel],
                 executed |-> [l \in Loaders |-> 0],
                 first |-> [l \in Loaders |-> NoModel],
                 overlapped |-> [l \in Loaders |-> FALSE],
                 thread |-> [t \in Threads |-> NotCalling],
                 calls |-> 0,
                 returned |-> NoReturn]

\* load(), line 31: a thread calls load() on a loader and tests
\* self._model is None.
LoadCalled ==
    /\ loader # <<>>
    /\ loader.calls < MaxCalls
    /\ \E t \in Threads, l \in Loaders :
          /\ loader.thread[t].at = "idle"
          /\ loader' =
                [loader EXCEPT
                   !.calls = @ + 1,
                   !.overlapped[l] =
                       @ \/ \E u \in Threads : loader.thread[u].self = l,
                   !.thread[t] =
                       [at |-> IF loader.model[l] = NoModel
                               THEN "line32" ELSE "line33",
                        self |-> l,
                        ran_load |-> FALSE,
                        after_success |-> loader.first[l] # NoModel]]
    /\ UNCHANGED <<pc, original_text, buffer, tokenized, swbs, predicted,
                   items, entity_set_id, merge_consecutive, coarse,
                   tracking, again, seen, anchor, http, service>>

\* load(), line 32, with _load_model returning SequenceTagger.load(...):
\* a new model object is assigned to self._model.
LoadModelReturns ==
    /\ loader # <<>>
    /\ \E t \in Threads :
          LET l == loader.thread[t].self
          IN  /\ loader.thread[t].at = "line32"
              /\ loader' =
                    [loader EXCEPT
                       !.model[l] = [of |-> l, n |-> loader.executed[l] + 1],
                       !.executed[l] = @ + 1,
                       !.thread[t].at = "line33",
                       !.thread[t].ran_load = TRUE]
    /\ UNCHANGED <<pc, original_text, buffer, tokenized, swbs, predicted,
                   items, entity_set_id, merge_consecutive, coarse,
                   tracking, again, seen, anchor, http, service>>

\* load(), line 32, with _load_model raising ModelLoadException: nothing
\* is assigned and the call ends.
LoadModelRaises ==
    /\ loader # <<>>
    /\ \E t \in Threads :
          LET l == loader.thread[t].self
          IN  /\ loader.thread[t].at = "line32"
              /\ loader' =
                    [loader EXCEPT
                       !.thread[t] = NotCalling,
                       !.returned =
                           [self |-> l, model |-> NoModel, raised |-> TRUE,
                            ran_load |-> TRUE,
                            after_success |-> loader.thread[t].after_success]]
    /\ UNCHANGED <<pc, original_text, buffer, tokenized, swbs, predicted,
                   items, entity_set_id, merge_consecutive, coarse,
                   tracking, again, seen, anchor, http, service>>

\* load(), line 33: return self._model.
LoadReturns ==
    /\ loader # <<>>
    /\ \E t \in Threads :
          LET l == loader.thread[t].self
          IN  /\ loader.thread[t].at = "line33"
              /\ loader' =
                    [loader EXCEPT
                       !.thread[t] = NotCalling,
                       !.first[l] = IF @ = NoModel THEN loader.model[l]
                                    ELSE @,
                       !.returned =
                           [self |-> l, model |-> loader.model[l],
                            raised |-> FALSE,
                            ran_load |-> loader.thread[t].ran_load,
                            after_success |-> loader.thread[t].after_success]]
    /\ UNCHANGED <<pc, original_text, buffer, tokenized, swbs, predicted,
                   items, entity_set_id, merge_consecutive, coarse,
                   tracking, again, seen, anchor, http, service>>

NextLoader ==
    LoadCalled \/ LoadModelReturns \/ LoadModelRaises \/ LoadReturns

SpecLoader == InitLoader /\ [][NextLoader]_vars

(***************************************************************************)
(* ModelServiceImpl: the registry, its reload and its lookups              *)
(***************************************************************************)
MaxReloads == 2

\* The value _load_model_registry returns.
NoneValue == "None"

\* Exceptions the interpreter raises for an operation on None.
NoneHasNoClear ==
    [cls |-> "AttributeError",
     message |-> <<"'NoneType' object has no attribute 'clear'">>]

NoneNotIterable ==
    [cls |-> "TypeError",
     message |-> <<"argument of type 'NoneType' is not iterable">>]

NoCall == [op |-> "", entity_set_id |-> "", model_id |-> "",
           raised |-> NoException]

\* self._models_registry is the attribute of the instance when one has
\* been assigned, else the dictionary of the class; the only value ever
\* assigned to the instance is None.
RegistryIsNone(svc) ==
    svc.instance_has_attr /\ svc.instance_attr = NoneValue

ModelsRegistryOf(svc) ==
    IF svc.instance_has_attr THEN svc.instance_attr ELSE svc.class_attr

\* ModelServiceImpl(): __init__ has filled the dictionary of the class
\* through _load_model_registry and assigned no attribute of the instance.
InitService ==
    /\ pc = "idle"
    /\ original_text = <<>>
    /\ buffer = DefaultBuffer
    /\ tokenized = <<>>
    /\ swbs = <<>>
    /\ predicted = <<>>
    /\ items = <<>>
    /\ entity_set_id = ""
    /\ merge_consecutive = FALSE
    /\ coarse = <<>>
    /\ tracking = <<>>
    /\ again = <<>>
    /\ seen = {}
    /\ anchor = <<>>
    /\ http = <<>>
    /\ loader = <<>>
    /\ \E config \in Configs :
          service = [config |-> config,
                     class_attr |-> ModelsRegistry(config),
                     instance_has_attr |-> FALSE,
                     instance_attr |-> NoneValue,
                     reloads |-> 0,
                     last |-> NoCall]

\* reload_model_registry, line 224:
\* self._models_registry = self._load_model_registry(), where
\* _load_model_registry clears and refills self._models_registry in place
\* and returns None.
ReloadModelRegistry ==
    /\ service # <<>>
    /\ service.reloads < MaxReloads
    /\ service' =
          IF RegistryIsNone(service)
          THEN [service EXCEPT
                  !.reloads = @ + 1,
                  !.last = [op |-> "reload", entity_set_id |-> "",
                            model_id |-> "", raised |-> NoneHasNoClear]]
          ELSE [service EXCEPT
                  !.reloads = @ + 1,
                  !.class_attr = ModelsRegistry(service.config),
                  !.instance_has_attr = TRUE,
                  !.instance_attr = NoneValue,
                  !.last = [op |-> "reload", entity_set_id |-> "",
                            model_id |-> "", raised |-> NoException]]
    /\ UNCHANGED <<pc, original_text, buffer, tokenized, swbs, predicted,
                   items, entity_set_id, merge_consecutive, coarse,
                   tracking, again, seen, anchor, http, loader>>

\* get_model_inference_maker(entity_set_id, model_id) is called on the
\* service.
LookupInferenceMaker ==
    /\ service # <<>>
    /\ \E es \in EntitySetIds, model_id \in ModelIds :
          service' =
             [service EXCEPT
                !.last =
                    [op |-> "get", entity_set_id |-> es,
                     model_id |-> model_id,
                     raised |->
                        IF RegistryIsNone(service)
                        THEN NoneNotIterable
                        ELSE GetModelInferenceMaker(
                                 ModelsRegistryOf(service), es, model_id)]]
    /\ UNCHANGED <<pc, original_text, buffer, tokenized, swbs, predicted,
                   items, entity_set_id, merge_consecutive, coarse,
                   tracking, again, seen, anchor, http, loader>>

NextService == ReloadModelRegistry \/ LookupInferenceMaker

SpecService == InitService /\ [][NextService]_vars

(***************************************************************************)
(* The tab placeholder and the tokenizer                                   *)
(***************************************************************************)
MaxTabText == 4

\* original_text.replace('\t', '!!!')
RECURSIVE ReplaceTabs(_)
ReplaceTabs(s) ==
    IF s = <<>> THEN <<>>
    ELSE (IF s[1] = TAB THEN Placeholder ELSE <<s[1]>>)
         \o ReplaceTabs(Tail(s))

\* A tokenizer on the text given to it: tokens are the stretches between
\* whitespace, whole (split = FALSE) or cut where a run of "!" meets other
\* characters (split = TRUE); <<first, last>> positions, 1-based.
RECURSIVE ScanTokens(_, _, _, _)
ScanTokens(t, split, i, lo) ==
    IF i > Len(t)
    THEN (IF lo = 0 THEN <<>> ELSE << <<lo, Len(t)>> >>)
    ELSE IF t[i] \in Whitespace
    THEN (IF lo = 0 THEN <<>> ELSE << <<lo, i - 1>> >>)
         \o ScanTokens(t, split, i + 1, 0)
    ELSE IF lo # 0 /\ split /\ ((t[i] = "!") # (t[i - 1] = "!"))
    THEN << <<lo, i - 1>> >> \o ScanTokens(t, split, i + 1, i)
    ELSE ScanTokens(t, split, i + 1, IF lo = 0 THEN i ELSE lo)

TokenRanges(t, split) == ScanTokens(t, split, 1, 0)

\* The tokens of the one sentence the tokenizer emits: space_after when
\* whitespace follows the token.
TokenizeText(t, split) ==
    LET ranges == TokenRanges(t, split)
    IN  Sent([k \in 1..Len(ranges) |->
                Tok(SubSeq(t, ranges[k][1], ranges[k][2]),
                    ranges[k][2] < Len(t)
                    /\ t[ranges[k][2] + 1] \in Whitespace)])

\* Non-blank input texts with tabs, spaces, a letter and exclamation
\* marks.
TabTexts ==
    {t \in Strings({"a", "!", TAB, SP}, MaxTabText) :
        \E i \in 1..Len(t) : t[i] \notin Whitespace}

InitPlaceholder ==
    /\ pc = "received"
    /\ buffer = DefaultBuffer
    /\ tokenized = <<>>
    /\ swbs = <<>>
    /\ predicted = <<>>
    /\ items = <<>>
    /\ entity_set_id = ""
    /\ merge_consecutive = FALSE
    /\ coarse = <<>>
    /\ tracking = <<>>
    /\ again = <<>>
    /\ seen = {}
    /\ anchor = <<>>
    /\ http = <<>>
    /\ loader = <<>>
    /\ service = <<>>
    /\ original_text \in TabTexts

\* _get_sentences_with_boundaries(original_text): lines 77-78 replace the
\* tabs and tokenize, lines 79-119 rebuild and locate the sentence.
TokenizeAndLocate ==
    /\ pc = "received"
    /\ \E split \in BOOLEAN :
          LET sentences ==
                  <<TokenizeText(ReplaceTabs(original_text), split)>>
          IN  /\ tokenized' = sentences
              /\ swbs' = GetSentencesWithBoundaries(original_text, sentences,
                                                    buffer)
    /\ pc' = "bounded"
    /\ UNCHANGED <<original_text, buffer, predicted, items, entity_set_id,
                   merge_consecutive, coarse, tracking, again, seen, anchor,
                   http, loader, service>>

NextPlaceholder == TokenizeAndLocate

SpecPlaceholder == InitPlaceholder /\ [][NextPlaceholder]_vars

(***************************************************************************)
(* The anchor searches of lines 87 and 89                                  *)
(***************************************************************************)
\* Texts longer than the buffer, and two short ones.
RetryTexts ==
    {LongText, RetryText, GapText(DefaultBuffer + 1),
     <<"a", SP, "b">>, <<"b", "a">>}

\* The sentence strings of AnchorSentences, and the empty string that
\* lines 82-85 build from a sentence of placeholder tokens.
RetrySentences == AnchorSentences \cup {<<>>}

\* Line 87 searches from offset = the previous end, in
\* 0..len(original_text); line 89 searches from prev_end - buffer when the
\* start the first search returned lies more than buffer after prev_end.
InitAnchorRetry ==
    /\ pc = "idle"
    /\ buffer = DefaultBuffer
    /\ tokenized = <<>>
    /\ swbs = <<>>
    /\ predicted = <<>>
    /\ items = <<>>
    /\ entity_set_id = ""
    /\ merge_consecutive = FALSE
    /\ coarse = <<>>
    /\ tracking = <<>>
    /\ again = <<>>
    /\ seen = {}
    /\ http = <<>>
    /\ loader = <<>>
    /\ service = <<>>
    /\ original_text \in RetryTexts
    /\ \E sentence \in RetrySentences, prev_end \in 0..Len(original_text) :
          \E retry \in BOOLEAN :
             /\ retry =>
                   GetPotentialSentenceBoundary(original_text, sentence,
                                                prev_end, buffer)[1]
                      - prev_end > buffer
             /\ anchor = [somajo_tokenized_sentence |-> sentence,
                          offset |-> IF retry THEN prev_end - buffer
                                     ELSE prev_end,
                          returned |-> FALSE,
                          start_index |-> 0, final_index |-> 0]

SpecAnchorRetry == InitAnchorRetry /\ [][NextAnchor]_vars

(***************************************************************************)
(* Vocabulary of the properties                                            *)
(***************************************************************************)
Recovered == pc \in {"recovered", "coarse"}

Consolidated == pc = "coarse"

InText(e) == 0 <= e.start /\ e.start <= e.end /\ e.end <= Len(original_text)

\* How each label of a sentence was resolved, with the cursor it was
\* searched from.
RECURSIVE LabelSteps(_, _, _)
LabelSteps(labels, swb_end, next_cursor) ==
    IF labels = <<>> THEN <<>>
    ELSE LET r == ResolveLabel(original_text, labels[1].text, next_cursor,
                               swb_end)
         IN  <<[kind |-> r.kind, start |-> r.start, end |-> r.end,
                cursor |-> next_cursor, label |-> labels[1]]>>
             \o LabelSteps(Tail(labels), swb_end,
                           IF r.kind \in {"exact", "anchor"}
                           THEN r.end ELSE next_cursor)

StepsOf(k) == LabelSteps(predicted[k], swbs[k].end, swbs[k].start)

Emitting(step) == step.kind # "dropped"

\* The number of entities the sentences 1..k emit.
RECURSIVE EmittedUpTo(_)
EmittedUpTo(k) ==
    IF k = 0 THEN 0
    ELSE EmittedUpTo(k - 1) + Len(SelectSeq(StepsOf(k), Emitting))

\* The sentence whose labels produced items[n].
OwnerOf(n) ==
    CHOOSE k \in 1..Len(swbs) : EmittedUpTo(k - 1) < n /\ n <= EmittedUpTo(k)

SomeStep(kind) ==
    \E k \in 1..Len(swbs) : \E i \in 1..Len(StepsOf(k)) :
        StepsOf(k)[i].kind = kind

\* The token_ids joined in a (merged) token_id: each starts at a "T".
RECURSIVE SplitIds(_)
SplitIds(token_id) ==
    IF token_id = <<>> THEN <<>>
    ELSE LET later == {i \in 2..Len(token_id) : token_id[i] = "T"}
             cut == IF later = {} THEN Len(token_id) + 1 ELSE MinOf(later)
         IN  <<SubSeq(token_id, 1, cut - 1)>>
             \o SplitIds(SubSeq(token_id, cut, Len(token_id)))

ItemWithId(id) == CHOOSE n \in 1..Len(items) : items[n].token_id = id

\* The items that went into coarse[r], in the order of its token_id.
MembersOf(r) ==
    LET ids == SplitIds(coarse[r].token_id)
    IN  [m \in 1..Len(ids) |-> items[ItemWithId(ids[m])]]

Survives(e) ==
    e.start # -1 /\ e.label \notin SkipLabels(entity_set_id)

(***************************************************************************)
(* Span recovery and boundary reconstruction: C1 - C5                      *)
(***************************************************************************)
\* C1: every emitted entity with start # -1 lies inside the window of the
\* sentence whose labels produced it:
\* sentence.start <= entity.start and entity.end <= sentence.end.
C1_EntityInsideOwningSentence ==
    Recovered =>
        \A n \in 1..Len(items) :
            items[n].start # -1 =>
                /\ swbs[OwnerOf(n)].start <= items[n].start
                /\ items[n].end <= swbs[OwnerOf(n)].end

\* C1 holds of every sentence whose window is a range of the text.
C1_InsideWindowsInText ==
    Recovered =>
        \A n \in 1..Len(items) :
            (items[n].start # -1 /\ InText(swbs[OwnerOf(n)])) =>
                /\ swbs[OwnerOf(n)].start <= items[n].start
                /\ items[n].end <= swbs[OwnerOf(n)].end

\* C2: the token_ids of the N entities emitted for a text are exactly
\* "T1", "T2", ..., "TN" in emission order, and N is the number of labels
\* that emit (a dropped label consumes no number).
C2_TokenIdsSequential ==
    Recovered =>
        /\ \A n \in 1..Len(items) : items[n].token_id = <<"T">> \o Str(n)
        /\ Len(items) = EmittedUpTo(Len(swbs))

\* C2's case: a label that emits nothing, and a later label of the same
\* text that emits an entity.
C2_Witness ==
    /\ pc = "recovered"
    /\ \E k \in 1..Len(swbs) : \E i \in 1..Len(StepsOf(k)) :
          /\ StepsOf(k)[i].kind = "dropped"
          /\ \/ \E j \in (i + 1)..Len(StepsOf(k)) : Emitting(StepsOf(k)[j])
             \/ EmittedUpTo(Len(swbs)) > EmittedUpTo(k)

WellFormedEntity(e) ==
    /\ e.start = -1 <=> e.end = -1
    /\ e.start # -1 =>
          /\ e.start <= e.end
          /\ e.token = Slice(original_text, e.start, e.end)

\* C3: every entity of span recovery and every entity of coarse
\* consolidation has start = -1 iff end = -1, and otherwise start <= end
\* and token = original_text[start:end].
C3_EntitiesWellFormed ==
    /\ Recovered => \A n \in 1..Len(items) : WellFormedEntity(items[n])
    /\ Consolidated => \A r \in 1..Len(coarse) : WellFormedEntity(coarse[r])

\* C3's case: a sentinel and an anchor match among the entities, and a
\* consolidated output with a merged entity and a date-repaired one.
C3_Witness ==
    /\ Consolidated
    /\ \E r \in 1..Len(coarse) : Len(MembersOf(r)) > 1
    /\ \E r \in 1..Len(coarse) :
          coarse[r].end < MembersOf(r)[Len(MembersOf(r))].end

\* A sentinel beside an anchor match among the entities of one text.
C3_WitnessSentinelAnchor ==
    /\ Recovered
    /\ \E n \in 1..Len(items) : items[n].start = -1
    /\ SomeStep("anchor")

\* C4: every sentence boundary satisfies 0 <= start <= end <= len(text).
C4_BoundariesInText ==
    pc # "idle" => \A k \in 1..Len(swbs) : InText(swbs[k])

\* C5: when more than one sentence is returned, none has start = end.
C5_NoEmptyWindowAfterRepair ==
    (pc # "idle" /\ Len(swbs) > 1) =>
        \A k \in 1..Len(swbs) : swbs[k].start # swbs[k].end

(***************************************************************************)
(* Coarse consolidation: C6 - C10                                          *)
(***************************************************************************)
\* The surviving entities in start order with their coarse labels: what
\* the merge scan reads.
SortedMapped ==
    MapLabels(SurvivingSorted(items, SkipLabels(entity_set_id)),
              FineToCoarseMapping(entity_set_id))

\* The runs the merge scan forms.
Runs == RunsFrom(SortedMapped, original_text, 1)

IdsOf(r) == {SplitIds(coarse[r].token_id)[m] :
                m \in 1..Len(SplitIds(coarse[r].token_id))}

\* The output entities that hold the entity a.
Holding(a) == {r \in 1..Len(coarse) : a.token_id \in IdsOf(r)}

SameRun(a, b) == Holding(a) \cap Holding(b) # {}

Gap(a, b) == Slice(original_text, a.end, b.start)

\* The separator set as the claim lists it: the space is its only
\* whitespace character.
ListedSeparators ==
    {SP, ",", ".", "-", ":", ";", "(", ")", "[", "]", "{", "}", "'", "\"",
     "/", "\\"}

AdjacentWith(a, b, separators) ==
    /\ a.label = b.label
    /\ b.start >= a.end
    /\ \/ b.start = a.end
       \/ /\ Len(Gap(a, b)) <= 4
          /\ \A i \in 1..Len(Gap(a, b)) : Gap(a, b)[i] \in separators

\* C6: with merging enabled, two entities consecutive in start order are
\* in the same merged run iff they have the same coarse label, B.start >=
\* A.end, and they touch or are separated by at most 4 characters of the
\* listed separator set, whose only whitespace is the space.
C6_MergedIffListedSeparators ==
    (Consolidated /\ merge_consecutive) =>
        \A i \in 1..(Len(SortedMapped) - 1) :
            SameRun(SortedMapped[i], SortedMapped[i + 1])
                <=> AdjacentWith(SortedMapped[i], SortedMapped[i + 1],
                                 ListedSeparators)

\* C6 as the code has it: the gap may hold any whitespace character.
C6_MergedIffClassSeparators ==
    (Consolidated /\ merge_consecutive) =>
        \A i \in 1..(Len(SortedMapped) - 1) :
            SameRun(SortedMapped[i], SortedMapped[i + 1])
                <=> AdjacentWith(SortedMapped[i], SortedMapped[i + 1],
                                 ListedSeparators \cup Whitespace)

ItemIndex(e) == CHOOSE n \in 1..Len(items) : items[n].token_id = e.token_id

\* The token_ids of a run joined in emission order.
RECURSIVE JoinInEmissionOrder(_)
JoinInEmissionOrder(members) ==
    IF members = {} THEN <<>>
    ELSE LET first == CHOOSE e \in members :
                         \A o \in members : ItemIndex(e) <= ItemIndex(o)
         IN  first.token_id \o JoinInEmissionOrder(members \ {first})

RunMembers(run) == {run[m] : m \in 1..Len(run)}

\* The one output entity that stands for a run.
StandsFor(run, expected) ==
    \E r \in 1..Len(coarse) :
        /\ coarse[r] = expected
        /\ \A m \in 1..Len(run) : Holding(run[m]) = {r}

\* C7: a merged run of more than one entity yields exactly one entity with
\* start = first.start, end = last.end, token = original_text[start:end],
\* the shared coarse label, and token_id = the members' token_ids joined
\* in emission order.
C7_MergedEntityInEmissionOrder ==
    (Consolidated /\ merge_consecutive) =>
        \A q \in 1..Len(Runs) :
            Len(Runs[q]) > 1 =>
                LET run == Runs[q]
                    last == run[Len(run)]
                IN  StandsFor(run,
                        [token_id |-> JoinInEmissionOrder(RunMembers(run)),
                         label |-> run[1].label,
                         start |-> run[1].start,
                         end |-> last.end,
                         token |-> Slice(original_text, run[1].start,
                                         last.end)])

\* A date followed by one trailing period: three groups of digits of
\* 1-2, 1-2 and 2-4 digits, each followed by a period.
DigitGroups(t) == SplitNonEmpty(t, {"."}, <<>>)

DateWithTrailingPeriod(t) ==
    /\ t # <<>>
    /\ t[1] # "."
    /\ t[Len(t)] = "."
    /\ Cardinality({i \in 1..Len(t) : t[i] = "."}) = 3
    /\ Len(DigitGroups(t)) = 3
    /\ \A g \in 1..3 : \A i \in 1..Len(DigitGroups(t)[g]) :
          DigitGroups(t)[g][i] \in Digits
    /\ Len(DigitGroups(t)[1]) \in 1..2
    /\ Len(DigitGroups(t)[2]) \in 1..2
    /\ Len(DigitGroups(t)[3]) \in 2..4

\* C7 as amended: the token_ids are joined in run order (ascending start),
\* and end = last.end, token = original_text[start:end] hold before the
\* date repair, which removes the trailing period of a merged DATE token.
C7_MergedEntityInRunOrder ==
    (Consolidated /\ merge_consecutive) =>
        \A q \in 1..Len(Runs) :
            Len(Runs[q]) > 1 =>
                LET run == Runs[q]
                    last == run[Len(run)]
                    whole == Slice(original_text, run[1].start, last.end)
                    end == IF run[1].label = "DATE"
                              /\ DateWithTrailingPeriod(whole)
                           THEN last.end - 1 ELSE last.end
                IN  StandsFor(run,
                        [token_id |-> JoinIds(run),
                         label |-> run[1].label,
                         start |-> run[1].start,
                         end |-> end,
                         token |-> Slice(original_text, run[1].start, end)])

\* C7's case: a run merged into one entity whose members were emitted in
\* another order than their start order, and a merged DATE run repaired.
C7_Witness ==
    /\ Consolidated /\ merge_consecutive
    /\ \E q \in 1..Len(Runs) :
          /\ Len(Runs[q]) > 1
          /\ JoinIds(Runs[q]) # JoinInEmissionOrder(RunMembers(Runs[q]))

\* A merged DATE run whose trailing period the date repair removed.
C7_WitnessMergedDate ==
    /\ Consolidated /\ merge_consecutive
    /\ \E q \in 1..Len(Runs) :
          /\ Len(Runs[q]) > 1
          /\ coarse[q].end = Runs[q][Len(Runs[q])].end - 1

\* The entities as mapping (and merging) produced them, before the date
\* repair.
BeforeDateRepair ==
    IF merge_consecutive THEN MergedEntities(Runs, original_text)
    ELSE SortedMapped

\* C8: exactly the output entities whose coarse label is DATE and whose
\* whole token is a date followed by one trailing period lose that period
\* (token shortened, end decreased by 1, start unchanged); every other
\* entity is left as mapping and merging produced it.
C8_DateRepairExactly ==
    Consolidated =>
        /\ Len(coarse) = Len(BeforeDateRepair)
        /\ \A r \in 1..Len(coarse) :
              LET before == BeforeDateRepair[r]
              IN  IF before.label = "DATE"
                     /\ DateWithTrailingPeriod(before.token)
                  THEN coarse[r] =
                          [before EXCEPT
                              !.token = SubSeq(before.token, 1,
                                               Len(before.token) - 1),
                              !.end = before.end - 1]
                  ELSE coarse[r] = before

\* C8's case: one output entity repaired, beside a DATE entity that is no
\* date with a trailing period and is left alone.
C8_Witness ==
    /\ Consolidated
    /\ \E r \in 1..Len(coarse) :
          /\ BeforeDateRepair[r].label = "DATE"
          /\ coarse[r].end = BeforeDateRepair[r].end - 1
          /\ coarse[r].token \o <<".">> = BeforeDateRepair[r].token
    /\ \E r \in 1..Len(coarse) :
          /\ coarse[r].label = "DATE"
          /\ coarse[r] = BeforeDateRepair[r]

\* C9: no output entity, and no constituent of a merged entity, comes
\* from a sentinel or from an entity whose fine label is skipped; no
\* output entity has start = -1.
C9_NoSentinelNoSkipped ==
    Consolidated =>
        \A r \in 1..Len(coarse) :
            /\ coarse[r].start # -1
            /\ \A id \in IdsOf(r) :
                  \E n \in 1..Len(items) :
                      /\ items[n].token_id = id
                      /\ items[n].start # -1
                      /\ items[n].label \notin SkipLabels(entity_set_id)

\* C9's case: an output entity beside an input entity that is a sentinel
\* or carries a skipped label.
C9_Witness ==
    /\ Consolidated
    /\ coarse # <<>>
    /\ \E n \in 1..Len(items) :
          \/ items[n].start = -1
          \/ items[n].label \in SkipLabels(entity_set_id)

\* A sentinel and a skipped label in one input: nothing is output.
C9_WitnessAllFiltered ==
    /\ Consolidated
    /\ \E n \in 1..Len(items) : items[n].start = -1
    /\ \E n \in 1..Len(items) :
          /\ items[n].start # -1
          /\ items[n].label \in SkipLabels(entity_set_id)

\* The coarse label the tables give for the fine labels of the model.
ListedCoarse(es, fine) ==
    IF es = "codealltag" /\ fine \in {"CITY", "STREET"} THEN "LOCATION"
    ELSE fine

\* C10: every surviving entity is relabelled with fine_to_coarse[fine] when
\* fine is a key of the selected mapping and keeps its label otherwise
\* ("codealltag": CITY becomes LOCATION, UNKNOWN_X stays); an unknown
\* label never fails; with no mapping table nothing is relabelled or
\* skipped.
C10_RelabelledOrIdentity ==
    Consolidated =>
        /\ \A n \in 1..Len(items) :
              (items[n].start # -1
               /\ ~(entity_set_id = "grascco" /\ items[n].label = "NAME_TITLE"))
              => \E r \in 1..Len(coarse) :
                    /\ items[n].token_id \in IdsOf(r)
                    /\ coarse[r].label
                         = ListedCoarse(entity_set_id, items[n].label)
        /\ entity_set_id = "other" =>
              \A r \in 1..Len(coarse) : \A m \in 1..Len(MembersOf(r)) :
                  coarse[r].label = MembersOf(r)[m].label

\* C10's case: under "codealltag" a CITY relabelled LOCATION beside an
\* UNKNOWN_X that keeps its label.
C10_Witness ==
    /\ Consolidated
    /\ entity_set_id = "codealltag"
    /\ \E r \in 1..Len(coarse) :
          /\ coarse[r].label = "LOCATION"
          /\ \E m \in 1..Len(MembersOf(r)) : MembersOf(r)[m].label = "CITY"
    /\ \E r \in 1..Len(coarse) : coarse[r].label = "UNKNOWN_X"

(***************************************************************************)
(* Coarse consolidation of its own output: C11                             *)
(***************************************************************************)
Reconsolidated == pc = "reconsolidated"

\* The start, end, label and token of the entities of a frame.
Spans(frame) ==
    [r \in 1..Len(frame) |->
        [start |-> frame[r].start, end |-> frame[r].end,
         label |-> frame[r].label, token |-> frame[r].token]]

\* C11: map_to_coarse_labels applied to its own merged output (same text,
\* mapping, skip_labels, merge enabled) returns the same number of
\* entities with the same start, end, label and token.
C11_MergingIdempotent ==
    Reconsolidated => Spans(again) = Spans(coarse)

\* C11 holds of every output in which the date repair changed nothing.
C11_IdempotentWithoutDateRepair ==
    (Reconsolidated /\ coarse = BeforeDateRepair) =>
        Spans(again) = Spans(coarse)

\* The second application merges a repaired date with the entity that
\* begins at the period the repair removed.
C11_WitnessMergedAgain ==
    /\ Reconsolidated
    /\ Len(again) < Len(coarse)

(***************************************************************************)
(* Boundary reconstruction on a used instance: C12                         *)
(***************************************************************************)
StartEnd(list) ==
    [k \in 1..Len(list) |-> <<list[k].start, list[k].end>>]

SameInput(r) ==
    /\ r.original_text = original_text
    /\ r.tokenized = tokenized
    /\ r.buffer = buffer

C12_WitnessAfterLongerText ==
    /\ pc = "bounded"
    /\ \E r \in seen :
          /\ r.original_text # original_text
          /\ r.swbs[Len(r.swbs)].end > Len(original_text)
          /\ \E k \in 1..Len(swbs) : swbs[k].end > swbs[k].start

(***************************************************************************)
(* Labels that are not found: C13                                          *)
(***************************************************************************)
\* sub occurs in the text at some position p with lo <= p and
\* p + len(sub) <= hi.
OccursInside(sub, lo, hi) ==
    \E p \in 0..(Len(original_text) - Len(sub)) :
        /\ lo <= p
        /\ p + Len(sub) <= hi
        /\ SubSeq(original_text, p + 1, p + Len(sub)) = sub

\* The number of entities emitted before and by step i of sentence k.
EmittedThrough(k, i) ==
    EmittedUpTo(k - 1)
    + Len(SelectSeq(SubSeq(StepsOf(k), 1, i), Emitting))

\* The cursor after step i of sentence k: the one the next label of the
\* sentence is searched from.
CursorAfter(k, i) ==
    LET step == StepsOf(k)[i]
    IN  IF step.kind \in {"exact", "anchor"} THEN step.end ELSE step.cursor

\* What the claim says of one label that is not found inside
\* [next_cursor, sentence.end).
NotFoundOutcome(k, i) ==
    LET step == StepsOf(k)[i]
        n == EmittedThrough(k, i)
    IN  IF ~HasWhitespace(step.label.text)
        THEN /\ n = EmittedThrough(k, i - 1) + 1
             /\ items[n] = [token_id |-> <<"T">> \o Str(n),
                            label |-> step.label.value,
                            start |-> -1, end |-> -1,
                            token |-> step.label.text]
             /\ CursorAfter(k, i) = step.cursor
        ELSE step.kind # "anchor" =>
                /\ n = EmittedThrough(k, i - 1)
                /\ CursorAfter(k, i) = step.cursor

\* C13: a label not found inside [next_cursor, sentence.end) emits one
\* sentinel (start = end = -1, token = label_text, the next token_id) when
\* it has no whitespace, and nothing when it has whitespace and the anchor
\* path accepts no span; the cursor is unchanged in both cases.
C13_NotFoundSentinelOrNothing ==
    Recovered =>
        \A k \in 1..Len(swbs) : \A i \in 1..Len(StepsOf(k)) :
            ~OccursInside(StepsOf(k)[i].label.text, StepsOf(k)[i].cursor,
                          swbs[k].end)
            => NotFoundOutcome(k, i)

\* C13 holds of every sentence whose window is a range of the text.
C13_NotFoundInsideWindowsInText ==
    Recovered =>
        \A k \in 1..Len(swbs) : \A i \in 1..Len(StepsOf(k)) :
            (/\ InText(swbs[k])
             /\ ~OccursInside(StepsOf(k)[i].label.text, StepsOf(k)[i].cursor,
                              swbs[k].end))
            => NotFoundOutcome(k, i)

\* The entities of a text are those its steps emit, in order.
C13_StepsAreTheEntities ==
    Recovered =>
        /\ Len(items) = EmittedUpTo(Len(swbs))
        /\ \A k \in 1..Len(swbs) : \A i \in 1..Len(StepsOf(k)) :
              LET step == StepsOf(k)[i]
                  n == EmittedThrough(k, i)
              IN  Emitting(step) =>
                     /\ items[n].start = step.start
                     /\ items[n].end = step.end
                     /\ items[n].label = step.label.value

\* A sentinel and a label that emits nothing, in windows that are ranges
\* of the text.
C13_WitnessInText ==
    /\ pc = "recovered"
    /\ \A k \in 1..Len(swbs) : InText(swbs[k])
    /\ SomeStep("sentinel")
    /\ SomeStep("dropped")

(***************************************************************************)
(* Requests that name something not configured: C14                        *)
(***************************************************************************)
Answered == http # <<>> /\ http.phase = "answered"

\* The entity set is not configured, or the model is not available for
\* it: not among its supported models, or not loaded into the registry.
NamesMissingResource ==
    \/ http.request.entity_set_id \notin DOMAIN http.config
    \/ http.request.model_id
         \notin ModelsRegistry(http.config)[http.request.entity_set_id]

IdentifiesMissingResource ==
    http.response.message
        \in {EntitySetNotFoundException(http.request.entity_set_id).message,
             ModelNotFoundException(http.request.entity_set_id,
                                    http.request.model_id).message}

\* C14: a request that names an entity set that is not configured, or a
\* model that is not available for the entity set, is answered 404 with a
\* message that identifies the missing resource, and no inference is run.
C14_MissingResourceAnswered404 ==
    (Answered /\ NamesMissingResource) =>
        /\ http.response.status_code = 404
        /\ IdentifiesMissingResource
        /\ ~http.inferred

\* What holds of such a request: no inference is run, and it is answered
\* 500, by generic_exception_handler unless the model is configured with
\* a model_type other than NER.
C14_MissingResourceAnswered500 ==
    (Answered /\ NamesMissingResource) =>
        /\ ~http.inferred
        /\ http.response.status_code = 500
        /\ ~IdentifiesMissingResource

\* A request for an unknown entity set has been answered.
C14_WitnessUnknownEntitySet ==
    /\ Answered
    /\ http.request.entity_set_id \notin DOMAIN http.config
    /\ http.response.error = "domain.PredictionError"

(***************************************************************************)
(* Consolidation without merging, and the order of the output: C15, C16    *)
(***************************************************************************)
\* The input entities that are no sentinel and carry no skipped label.
SurvivingItems == SelectSeq(items, Survives)

\* The output entity that the claim gives for a surviving input entity
\* when nothing is merged.
Unmerged(e) ==
    LET label == ListedCoarse(entity_set_id, e.label)
    IN  IF label = "DATE" /\ DateWithTrailingPeriod(e.token)
        THEN [e EXCEPT !.label = label,
                       !.end = e.end - 1,
                       !.token = SubSeq(e.token, 1, Len(e.token) - 1)]
        ELSE [e EXCEPT !.label = label]

\* C15: with merging disabled the output has exactly one entity per
\* surviving input entity, with its token_id and start, the mapped label,
\* and its end and token (shortened by the date repair where that
\* applies); the provenance map has one entry per returned entity.
C15_UnmergedOnePerSurvivor ==
    (Consolidated /\ ~merge_consecutive) =>
        /\ Len(coarse) = Len(SurvivingItems)
        /\ \A n \in 1..Len(SurvivingItems) :
              Cardinality({r \in 1..Len(coarse) :
                              coarse[r] = Unmerged(SurvivingItems[n])}) = 1
        /\ DOMAIN tracking = {coarse[r].token_id : r \in 1..Len(coarse)}
        /\ Cardinality(DOMAIN tracking) = Len(coarse)

\* C15's case: two entities that merging would combine stay apart, beside
\* an input entity that does not survive.
C15_Witness ==
    /\ Consolidated /\ ~merge_consecutive
    /\ \E r \in 1..(Len(coarse) - 1) :
          /\ coarse[r].label = coarse[r + 1].label
          /\ coarse[r].end = coarse[r + 1].start

\* Without merging: an input entity that does not survive, and a date
\* that is repaired.
C15_WitnessFilteredAndRepaired ==
    /\ Consolidated /\ ~merge_consecutive
    /\ Len(SurvivingItems) < Len(items)
    /\ \E n \in 1..Len(SurvivingItems) :
          Unmerged(SurvivingItems[n]).end < SurvivingItems[n].end

\* C16: the entities returned by coarse consolidation are in
\* non-decreasing order of start, with and without merging.
C16_OutputInStartOrder ==
    Consolidated =>
        \A r \in 1..(Len(coarse) - 1) : coarse[r].start <= coarse[r + 1].start

\* C16's case: an input that is not in start order, consolidated with and
\* without merging into more than one entity.
C16_Witness ==
    /\ Consolidated /\ merge_consecutive
    /\ Len(coarse) > 1
    /\ \E n \in 1..(Len(SurvivingItems) - 1) :
          SurvivingItems[n].start > SurvivingItems[n + 1].start

C16_WitnessUnmerged ==
    /\ Consolidated /\ ~merge_consecutive
    /\ Len(coarse) > 1
    /\ \E n \in 1..(Len(SurvivingItems) - 1) :
          SurvivingItems[n].start > SurvivingItems[n + 1].start

(***************************************************************************)
(* The end of an anchor search: C17                                        *)
(***************************************************************************)
AnchorReturned == anchor # <<>> /\ anchor.returned

OccursAt(sub, p) ==
    /\ 0 <= p
    /\ p + Len(sub) <= Len(original_text)
    /\ SubSeq(original_text, p + 1, p + Len(sub)) = sub

AnchorTokens ==
    SplitNonEmpty(anchor.somajo_tokenized_sentence, {SP}, <<>>)

FirstToken == AnchorTokens[1]

LastToken == AnchorTokens[Len(AnchorTokens)]

\* The first token is found at or after the offset.
FirstTokenFound ==
    \E p \in anchor.offset..Len(original_text) : OccursAt(FirstToken, p)

SearchEnd ==
    Min2(anchor.start_index + Len(anchor.somajo_tokenized_sentence) + buffer,
         Len(original_text))

\* Where the last token occurs beginning at or after start and ending at
\* or before search_end.
LastTokenOccurrences ==
    {p \in anchor.start_index..Len(original_text) :
        OccursAt(LastToken, p) /\ p + Len(LastToken) <= SearchEnd}

MaxOf(S) == CHOOSE m \in S : \A o \in S : m >= o

RightmostEnd ==
    IF LastTokenOccurrences # {}
    THEN MaxOf(LastTokenOccurrences) + Len(LastToken)
    ELSE Min2(anchor.start_index + Len(anchor.somajo_tokenized_sentence),
              Len(original_text))

\* A proper prefix of the token is also its suffix: two occurrences of it
\* can overlap.
SelfOverlapping(token) ==
    \E k \in 1..(Len(token) - 1) :
        SubSeq(token, 1, k) = SubSeq(token, Len(token) - k + 1, Len(token))

\* C17: when the first token is found at start, the returned end is the
\* end of the rightmost occurrence of the last token that begins at or
\* after start and ends at or before search_end, and
\* min(start + len(sentence), len(text)) when there is none; also when
\* occurrences of the last token overlap.
C17_EndAtRightmostOccurrence ==
    (AnchorReturned /\ FirstTokenFound) =>
        /\ OccursAt(FirstToken, anchor.start_index)
        /\ anchor.final_index = RightmostEnd

\* C17 holds of every last token whose occurrences cannot overlap each
\* other.
C17_EndAtRightmostDisjoint ==
    (AnchorReturned /\ FirstTokenFound /\ ~SelfOverlapping(LastToken)) =>
        /\ OccursAt(FirstToken, anchor.start_index)
        /\ anchor.final_index = RightmostEnd

\* An occurrence of the last token in the range that the scan skipped
\* because it overlaps the one before.
C17_WitnessSkippedOccurrence ==
    /\ AnchorReturned /\ FirstTokenFound
    /\ anchor.final_index < RightmostEnd

\* An occurrence of the last token that ends beyond search_end is not
\* taken.
C17_WitnessBeyondSearchEnd ==
    /\ AnchorReturned /\ FirstTokenFound
    /\ LastTokenOccurrences = {}
    /\ \E p \in anchor.start_index..Len(original_text) :
          OccursAt(LastToken, p)

(***************************************************************************)
(* Post-pass repair and the retry: C18, C19                                *)
(***************************************************************************)
\* The boundaries have been reconstructed.
Bounded == pc \notin {"idle", "tokenized"} /\ swbs # <<>>

\* The boundaries as the loop over the sentences recorded them, before
\* the post-pass repair.
Recorded == LocateAll(original_text, tokenized, 0, 0, buffer)

\* The first and the last index of the maximal run of failed sentences
\* that holds k.
RunFirst(k) ==
    MinOf({i \in 1..k : \A m \in i..k : Failed(Recorded[m])})

RunLast(k) ==
    MaxOf({j \in k..Len(Recorded) : \A m \in k..j : Failed(Recorded[m])})

\* What the claim gives for sentence k.
Repaired(k) ==
    IF ~Failed(Recorded[k]) THEN Recorded[k]
    ELSE [sentence |-> Recorded[k].sentence,
          start |-> IF RunFirst(k) > 1
                    THEN Max2(Recorded[RunFirst(k) - 1].end - buffer, 0)
                    ELSE Recorded[k].start,
          end |-> IF RunLast(k) < Len(Recorded)
                  THEN Min2(Recorded[RunLast(k) + 1].start - 1,
                            Len(original_text))
                  ELSE Recorded[k].end]

\* C18: post-pass repair rewrites every maximal run of failed sentences:
\* with a predecessor every member's start becomes
\* max(predecessor.end - buffer, 0), with a successor every member's end
\* becomes min(successor.start - 1, len(text)); nothing else changes.
C18_RepairRewritesRuns ==
    Bounded =>
        /\ Len(swbs) = Len(Recorded)
        /\ \A k \in 1..Len(swbs) : swbs[k] = Repaired(k)

\* C18's case: a run of failed sentences between a predecessor and a
\* successor.
C18_Witness ==
    /\ Bounded
    /\ \E k \in 2..(Len(swbs) - 1) :
          /\ Failed(Recorded[k])
          /\ ~Failed(Recorded[k - 1])
          /\ ~Failed(Recorded[k + 1])
          /\ swbs[k] # Recorded[k]

\* A run of two failed sentences with a predecessor only.
C18_WitnessRunOfTwo ==
    /\ Bounded
    /\ Len(swbs) = 3
    /\ ~Failed(Recorded[1])
    /\ Failed(Recorded[2]) /\ Failed(Recorded[3])
    /\ swbs[2].start = swbs[3].start
    /\ swbs[3] # Recorded[3]

\* An anchor search that starts at text position pos: the first token is
\* looked for at the positions of the text from pos on.
SearchFrom(sentence, pos) ==
    LET tokens == SplitNonEmpty(sentence, {SP}, <<>>)
        hits == IF tokens = <<>> THEN {}
                ELSE {p \in Max2(pos, 0)..Len(original_text) :
                         OccursAt(tokens[1], p)}
    IN  IF hits = {} THEN <<pos, pos>>
        ELSE GetPotentialSentenceBoundary(original_text, sentence,
                                          MinOf(hits), buffer)

\* The cursor for sentence k: 0, then the recorded end of the sentence
\* before.
Cursor(k) == IF k = 1 THEN 0 ELSE Recorded[k - 1].end

\* What the claim gives as the recorded boundary of sentence k.
FirstOrRetry(k) ==
    LET sentence == Recorded[k].sentence
        first == SearchFrom(sentence, Cursor(k))
    IN  IF first[1] - Cursor(k) > buffer
        THEN SearchFrom(sentence, Cursor(k) - buffer)
        ELSE first

Retried(k) ==
    SearchFrom(Recorded[k].sentence, Cursor(k))[1] - Cursor(k) > buffer

\* C19: the boundary recorded for a sentence is the result of the anchor
\* search from the cursor, or, when that starts more than buffer after
\* the previous end, of the anchor search from text position
\* previous_end - buffer, also when previous_end < buffer; a sentence
\* that has not failed keeps the recorded boundary.
C19_FirstSearchOrRetry ==
    Bounded =>
        \A k \in 1..Len(swbs) :
            /\ <<Recorded[k].start, Recorded[k].end>> = FirstOrRetry(k)
            /\ ~Failed(Recorded[k]) => swbs[k] = Recorded[k]

\* C19 holds of every sentence whose searches start at positions of the
\* text.
C19_SearchesFromTextPositions ==
    Bounded =>
        \A k \in 1..Len(swbs) :
            (Cursor(k) >= 0 /\ (Retried(k) => Cursor(k) - buffer >= 0)) =>
                /\ <<Recorded[k].start, Recorded[k].end>> = FirstOrRetry(k)
                /\ ~Failed(Recorded[k]) => swbs[k] = Recorded[k]

\* A retry from a position of the text that finds the sentence before
\* the cursor.
C19_WitnessRetryInText ==
    /\ Bounded
    /\ \E k \in 1..Len(swbs) :
          /\ Retried(k)
          /\ Cursor(k) - buffer >= 0
          /\ Recorded[k].start < Cursor(k)
          /\ Recorded[k].end > Recorded[k].start

(***************************************************************************)
(* The labels of one sentence, left to right: C20                          *)
(***************************************************************************)
\* The positions at which sub lies wholly inside [lo, hi).
OccurrencesInside(sub, lo, hi) ==
    {p \in 0..(Len(original_text) - Len(sub)) :
        lo <= p /\ p + Len(sub) <= hi /\ OccursAt(sub, p)}

\* The entities of sentence k that were resolved, in emission order.
ResolvedOf(k) ==
    SelectSeq(SubSeq(items, EmittedUpTo(k - 1) + 1, EmittedUpTo(k)),
              NotSentinel)

\* The cursor starts at sentence.start, moves to the end of each resolved
\* entity and never decreases; the resolved entities of a sentence follow
\* one another without overlap.
LeftToRight(k) ==
    /\ StepsOf(k) # <<>> => StepsOf(k)[1].cursor = swbs[k].start
    /\ \A i \in 1..Len(StepsOf(k)) :
          /\ CursorAfter(k, i) >= StepsOf(k)[i].cursor
          /\ i < Len(StepsOf(k)) =>
                StepsOf(k)[i + 1].cursor = CursorAfter(k, i)
          /\ StepsOf(k)[i].kind \in {"exact", "anchor"} =>
                /\ StepsOf(k)[i].start >= StepsOf(k)[i].cursor
                /\ items[EmittedThrough(k, i)].start = StepsOf(k)[i].start
                /\ items[EmittedThrough(k, i)].end = CursorAfter(k, i)
    /\ \A m \in 1..(Len(ResolvedOf(k)) - 1) :
          ResolvedOf(k)[m + 1].start >= ResolvedOf(k)[m].end

\* An exact match is the leftmost occurrence of the label's text that
\* lies wholly inside [next_cursor, sentence.end).
LeftmostInside(k) ==
    \A i \in 1..Len(StepsOf(k)) :
        LET step == StepsOf(k)[i]
            inside == OccurrencesInside(step.label.text, step.cursor,
                                        swbs[k].end)
        IN  /\ inside # {} =>
                  step.kind = "exact" /\ step.start = MinOf(inside)
            /\ step.kind = "exact" => inside # {}

\* C20: within a sentence the labels are resolved left to right: an exact
\* match takes the leftmost occurrence wholly inside
\* [next_cursor, sentence.end), next_cursor starts at sentence.start and
\* moves to the end of each resolved entity, every resolved entity starts
\* at or after the end of the one resolved before it, and next_cursor
\* never decreases.
C20_LabelsLeftToRight ==
    Recovered =>
        \A k \in 1..Len(swbs) : LeftmostInside(k) /\ LeftToRight(k)

\* The order of the resolved entities and the cursor, in every sentence.
C20_CursorNeverDecreases ==
    Recovered => \A k \in 1..Len(swbs) : LeftToRight(k)

\* C20 holds of every sentence whose window is a range of the text.
C20_LeftToRightInWindowsInText ==
    Recovered =>
        \A k \in 1..Len(swbs) :
            InText(swbs[k]) => LeftmostInside(k) /\ LeftToRight(k)

\* Two labels resolved in one sentence whose window is a range of the
\* text, the second taking an occurrence that is not the first in the
\* text.
C20_WitnessSecondOccurrence ==
    /\ pc = "recovered"
    /\ \E k \in 1..Len(swbs) :
          /\ InText(swbs[k])
          /\ Len(ResolvedOf(k)) = 2
          /\ ResolvedOf(k)[2].start
               > MinOf(OccurrencesInside(ResolvedOf(k)[2].token, 0,
                                         Len(original_text)))

(***************************************************************************)
(* The multi-token anchor path: C21                                        *)
(***************************************************************************)
\* sub occurs in the text at position p.
TextHas(sub, p) ==
    /\ 0 <= p
    /\ p + Len(sub) <= Len(original_text)
    /\ SubSeq(original_text, p + 1, p + Len(sub)) = sub

\* original_text[a:b] for 0 <= a <= b <= len(original_text).
TextRange(a, b) == SubSeq(original_text, a + 1, b)

\* What the claim says of the entity n that step i of sentence k emitted
\* through the anchor path.
AnchorPathOutcome(k, i) ==
    LET step == StepsOf(k)[i]
        n == EmittedThrough(k, i)
        tokens == SplitNonEmpty(step.label.text, Whitespace, <<>>)
        first_token == tokens[1]
        last_token == tokens[Len(tokens)]
    IN  \E f \in 0..Len(original_text), l \in 0..Len(original_text) :
           /\ TextHas(first_token, f)
           /\ step.cursor <= f
           /\ f + Len(first_token) <= swbs[k].end
           /\ TextHas(last_token, l)
           /\ f + Len(first_token) <= l
           /\ l + Len(last_token) <= swbs[k].end
           /\ CollapseWhitespace(TextRange(f, l + Len(last_token)))
                 = CollapseWhitespace(step.label.text)
           /\ items[n].start = f
           /\ items[n].end = l + Len(last_token)
           /\ items[n].token = TextRange(f, l + Len(last_token))
           /\ CursorAfter(k, i) = l + Len(last_token)

\* C21: an entity is emitted through the anchor path only if the first
\* token of the label is found at f inside [next_cursor, sentence.end),
\* the last token at l >= f + len(first_token) inside the same window, and
\* original_text[f : l+len(last_token)] equals the label text after
\* whitespace runs are collapsed; the entity is (f, l+len(last_token))
\* with that slice as token, and the cursor moves to its end.
C21_AnchorPathInsideWindow ==
    Recovered =>
        \A k \in 1..Len(swbs) : \A i \in 1..Len(StepsOf(k)) :
            StepsOf(k)[i].kind = "anchor" => AnchorPathOutcome(k, i)

\* C21 holds of every sentence whose window is a range of the text.
C21_AnchorPathInsideWindowsInText ==
    Recovered =>
        \A k \in 1..Len(swbs) : \A i \in 1..Len(StepsOf(k)) :
            (InText(swbs[k]) /\ StepsOf(k)[i].kind = "anchor")
            => AnchorPathOutcome(k, i)

\* An anchor match in a window that is a range of the text.
C21_WitnessInText ==
    /\ pc = "recovered"
    /\ \E k \in 1..Len(swbs) : \E i \in 1..Len(StepsOf(k)) :
          /\ InText(swbs[k])
          /\ StepsOf(k)[i].kind = "anchor"

(***************************************************************************)
(* The provenance map: C22                                                 *)
(***************************************************************************)
Merging == pc = "coarse" /\ merge_consecutive

\* The input entity a row of the merge scan came from.
InputOf(row) == items[ItemWithId(row.token_id)]

\* The provenance of one input entity as the claim lists it.
ProvenanceOf(e) ==
    [original_label |-> e.label, original_token |-> e.token,
     start |-> e.start, end |-> e.end]

OwnProvenance(entry) ==
    [original_label |-> entry.original_label,
     original_token |-> entry.original_token,
     start |-> entry.start, end |-> entry.end]

\* C22: with merging enabled the provenance map has exactly one key per
\* output entity, that entity's token_id; the entry of a merged entity
\* lists one constituent per member of its run, in run order, each with
\* the member's original fine label, token, start and end; the entry of
\* an unmerged entity holds its own original fine label, token, start and
\* end.
C22_ProvenancePerOutputEntity ==
    Merging =>
        /\ DOMAIN tracking = {coarse[r].token_id : r \in 1..Len(coarse)}
        /\ \A r1, r2 \in 1..Len(coarse) :
              coarse[r1].token_id = coarse[r2].token_id => r1 = r2
        /\ Len(coarse) = Len(Runs)
        /\ \A r \in 1..Len(coarse) :
              LET entry == tracking[coarse[r].token_id]
                  run == Runs[r]
              IN  IF Len(run) > 1
                  THEN entry.constituent_entities
                          = [m \in 1..Len(run) |->
                                ProvenanceOf(InputOf(run[m]))]
                  ELSE OwnProvenance(entry) = ProvenanceOf(InputOf(run[1]))

\* C22's case: a merged entity whose members have two fine labels, both
\* different from the coarse label of the run.
C22_Witness ==
    /\ Merging
    /\ \E r \in 1..Len(coarse) :
          /\ Len(Runs[r]) > 1
          /\ InputOf(Runs[r][1]).label # coarse[r].label
          /\ InputOf(Runs[r][2]).label # coarse[r].label
          /\ InputOf(Runs[r][1]).label # InputOf(Runs[r][2]).label
          /\ coarse[r].token_id \in DOMAIN tracking

\* An unmerged entity the date repair has shortened: its entry holds the
\* end it had in the input.
C22_WitnessDateRepaired ==
    /\ Merging
    /\ \E r \in 1..Len(coarse) :
          /\ Len(Runs[r]) = 1
          /\ coarse[r].end < InputOf(Runs[r][1]).end

(***************************************************************************)
(* The input of coarse consolidation: C23                                  *)
(***************************************************************************)
\* The entities span recovery returned for the text: the list given to
\* coarse consolidation.
FineGrained == ConvertFlairSentences(original_text, swbs, predicted)

\* The frame the first consolidation returned: the input of the second.
FirstConsolidated ==
    MapToCoarseLabels(FineGrained, original_text,
                      FineToCoarseMapping(entity_set_id),
                      SkipLabels(entity_set_id), merge_consecutive).df

\* C23: coarse consolidation never changes its input: after
\* map_to_coarse_labels returns, on every path, the entity list passed in
\* has the same entities with the same token_id, label, start, end and
\* token as before the call.
C23_InputUnchanged ==
    /\ pc \in {"coarse", "reconsolidated"} => items = FineGrained
    /\ pc = "reconsolidated" => coarse = FirstConsolidated

\* C23's case: the call dropped a sentinel and date-repaired an entity,
\* and the input still holds the sentinel and the unrepaired date.
C23_Witness ==
    /\ pc = "coarse"
    /\ \E n \in 1..Len(items) : items[n].start = -1
    /\ \E n \in 1..Len(items), r \in 1..Len(coarse) :
          /\ coarse[r].token_id = items[n].token_id
          /\ coarse[r].end = items[n].end - 1

\* The paths that return early: an empty input, and an input of which
\* nothing survives.
C23_WitnessNothingSurvives ==
    /\ pc = "coarse"
    /\ items # <<>>
    /\ coarse = <<>>

\* The second call merged entities of the frame it was given.
C23_WitnessMergedAgain ==
    /\ pc = "reconsolidated"
    /\ Len(again) < Len(coarse)

(***************************************************************************)
(* The cached model: C24                                                   *)
(***************************************************************************)
\* What the claim says of the loader l and of the load() call that
\* returned last.
LoadedOnce(l) ==
    /\ loader.executed[l] <= 1
    /\ (loader.returned.self = l /\ ~loader.returned.raised) =>
          /\ loader.returned.model.of = l
          /\ loader.returned.after_success =>
                /\ loader.returned.model = loader.first[l]
                /\ ~loader.returned.ran_load

\* C24: a loader loads its model at most once per run: after the first
\* load() that succeeds every later load() returns that same model object
\* without executing _load_model again, and loaders of different models
\* never return each other's model.
C24_LoadsAtMostOnce ==
    loader # <<>> => \A l \in Loaders : LoadedOnce(l)

\* C24 holds of every loader whose load() calls did not overlap.
C24_LoadsAtMostOnceWithoutOverlap ==
    loader # <<>> =>
        \A l \in Loaders : ~loader.overlapped[l] => LoadedOnce(l)

\* A later call returned a model other than the one the first call
\* returned.
C24_WitnessSecondModel ==
    /\ loader # <<>>
    /\ \E l \in Loaders :
          /\ loader.returned.self = l
          /\ loader.returned.after_success
          /\ ~loader.returned.raised
          /\ loader.returned.model # loader.first[l]

\* A call that did not overlap another returned the cached model after a
\* failed and a successful load.
C24_WitnessCachedAfterRetry ==
    /\ loader # <<>>
    /\ \E l \in Loaders :
          /\ ~loader.overlapped[l]
          /\ loader.returned.self = l
          /\ loader.returned.after_success
          /\ ~loader.returned.ran_load
          /\ loader.returned.model = [of |-> l, n |-> 1]
          /\ loader.calls >= 3

(***************************************************************************)
(* The registry after a reload: C25                                        *)
(***************************************************************************)
\* What a lookup answers on a usable service: the inference maker of a
\* configured entity set and a model whose requirements are satisfied,
\* the entity-set-not-found or model-not-found error for the others.
ExpectedLookup(es, model_id) ==
    IF es \notin DOMAIN service.config
    THEN EntitySetNotFoundException(es)
    ELSE IF \/ model_id \notin DOMAIN service.config[es]
            \/ ~service.config[es][model_id].loaded
    THEN ModelNotFoundException(es, model_id)
    ELSE NoException

LastCallAsExpected ==
    /\ service.last.op = "get" =>
          service.last.raised = ExpectedLookup(service.last.entity_set_id,
                                               service.last.model_id)
    /\ service.last.op = "reload" => service.last.raised = NoException

\* C25: after any number of reload_model_registry() calls,
\* get_model_inference_maker returns an inference maker for every
\* configured entity set and model whose requirements are satisfied,
\* raises the entity-set-not-found or model-not-found error for the
\* others, and reload_model_registry() can be called again.
C25_UsableAfterReload ==
    (service # <<>> /\ service.reloads > 0) => LastCallAsExpected

\* Before the first reload the lookups answer as expected, and the first
\* reload itself refills the registry and raises nothing.
C25_UsableUntilFirstReload ==
    service # <<>> =>
        /\ service.reloads = 0 => LastCallAsExpected
        /\ (service.reloads = 1 /\ service.last.op = "reload") =>
              /\ service.last.raised = NoException
              /\ service.class_attr = ModelsRegistry(service.config)

\* Every call after the first reload raises the interpreter's error for
\* None.
C25_NoneAfterReload ==
    (service # <<>> /\ service.reloads > 0) =>
        /\ RegistryIsNone(service)
        /\ service.last.op = "get" => service.last.raised = NoneNotIterable
        /\ (service.last.op = "reload" /\ service.reloads > 1) =>
              service.last.raised = NoneHasNoClear

\* A lookup of a loaded model before any reload.
C25_WitnessLookupBeforeReload ==
    /\ service # <<>>
    /\ service.reloads = 0
    /\ service.last.op = "get"
    /\ service.last.raised = NoException

(***************************************************************************)
(* The tab placeholder: C26                                                *)
(***************************************************************************)
\* For each character of the text given to the tokenizer, whether it was
\* present in original_text (TRUE) or stands for a tab (FALSE).
RECURSIVE PresentInOriginal(_)
PresentInOriginal(s) ==
    IF s = <<>> THEN <<>>
    ELSE (IF s[1] = TAB THEN <<FALSE, FALSE, FALSE>> ELSE <<TRUE>>)
         \o PresentInOriginal(Tail(s))

\* The positions of the tokens the tokenizer emitted.
EmittedRanges ==
    LET t == ReplaceTabs(original_text)
        split == CHOOSE b \in BOOLEAN : TokenizeText(t, b) = tokenized[1]
    IN  TokenRanges(t, split)

\* The characters of token k that were present in original_text.
RECURSIVE KeepPresent(_, _, _)
KeepPresent(t, present, i) ==
    IF i > Len(t) THEN <<>>
    ELSE (IF present[i] THEN <<t[i]>> ELSE <<>>)
         \o KeepPresent(t, present, i + 1)

OriginalTextOf(k) ==
    LET t == ReplaceTabs(original_text)
        r == EmittedRanges[k]
    IN  KeepPresent(SubSeq(t, r[1], r[2]),
                    SubSeq(PresentInOriginal(original_text), r[1], r[2]), 1)

\* The tokens' original text joined by single spaces, one after a token
\* exactly when space_after is true and the token is not sentence-final.
RECURSIVE JoinedOriginal(_)
JoinedOriginal(k) ==
    IF k > Len(tokenized[1]) THEN <<>>
    ELSE OriginalTextOf(k)
         \o (IF tokenized[1][k].space_after /\ k < Len(tokenized[1])
             THEN <<SP>> ELSE <<>>)
         \o JoinedOriginal(k + 1)

Transparent ==
    /\ swbs[1].sentence = JoinedOriginal(1)
    /\ \A k \in 1..Len(tokenized[1]) :
          RemoveAll(tokenized[1][k].text, Placeholder) = OriginalTextOf(k)

\* C26: the tab placeholder is transparent: stripping it from the token
\* texts removes only characters that stood for tabs, so the rebuilt
\* sentence string is the tokens' original text joined by at most single
\* spaces, and no character that was present in original_text is deleted
\* from any token.
C26_PlaceholderTransparent ==
    (pc = "bounded" /\ tokenized # <<>>) => Transparent

\* C26 holds of every text without an exclamation mark.
C26_TransparentWithoutExclamationMark ==
    (pc = "bounded" /\ tokenized # <<>>
     /\ \A i \in 1..Len(original_text) : original_text[i] # "!")
    => Transparent

\* A text with two tabs and no exclamation mark whose placeholders were
\* stripped from a token that holds a letter.
C26_WitnessTabsStripped ==
    /\ pc = "bounded"
    /\ tokenized # <<>>
    /\ \A i \in 1..Len(original_text) : original_text[i] # "!"
    /\ Cardinality({i \in 1..Len(original_text) : original_text[i] = TAB}) = 2
    /\ \E k \in 1..Len(tokenized[1]) :
          /\ OriginalTextOf(k) # <<>>
          /\ Len(tokenized[1][k].text) > Len(OriginalTextOf(k))

(***************************************************************************)
(* The windows of matched sentences: C27                                   *)
(***************************************************************************)
\* Sentence k was located by the second search, from prev_end - buffer
\* (line 88 held).
LocatedByRetry(k) ==
    GetPotentialSentenceBoundary(original_text, Recorded[k].sentence,
                                 Cursor(k), buffer)[1] - Cursor(k) > buffer

BothMatched(k) == ~Failed(Recorded[k]) /\ ~Failed(Recorded[k + 1])

\* C27: for any two consecutive sentences that were both located by
\* anchor search (neither failed and repaired), the later sentence's start
\* is at or after the earlier sentence's end, also when the later one was
\* located by the retry search from previous_end - buffer.
C27_MatchedWindowsOrdered ==
    Bounded =>
        \A k \in 1..(Len(swbs) - 1) :
            BothMatched(k) => swbs[k + 1].start >= swbs[k].end

\* C27 holds of every pair whose later sentence was located by the first
\* search.
C27_OrderedWithoutRetry ==
    Bounded =>
        \A k \in 1..(Len(swbs) - 1) :
            (BothMatched(k) /\ ~LocatedByRetry(k + 1))
            => swbs[k + 1].start >= swbs[k].end

\* Two matched sentences in a row, the later one found by the first
\* search after a gap.
C27_WitnessGapWithoutRetry ==
    /\ Bounded
    /\ \E k \in 1..(Len(swbs) - 1) :
          /\ BothMatched(k)
          /\ ~LocatedByRetry(k + 1)
          /\ swbs[k + 1].start > swbs[k].end

(***************************************************************************)
(* Entities of one text do not overlap: C28                                *)
(***************************************************************************)
Disjoint(a, b) == a.end <= b.start \/ b.end <= a.start

WindowsDisjoint(j, k) ==
    /\ InText(swbs[j])
    /\ InText(swbs[k])
    /\ Disjoint(swbs[j], swbs[k])

\* C28: across a whole input text no two resolved entities overlap: of
\* any two emitted entities with start # -1 one ends at or before the
\* other starts, also when they come from different sentences whose
\* windows were repaired or retried.
C28_ResolvedEntitiesDisjoint ==
    pc = "recovered" =>
        \A m, n \in 1..Len(items) :
            (m < n /\ items[m].start # -1 /\ items[n].start # -1)
            => Disjoint(items[m], items[n])

\* C28 holds of two entities of one sentence, and of two entities of
\* sentences whose windows are disjoint ranges of the text.
C28_DisjointInDisjointWindows ==
    pc = "recovered" =>
        \A m, n \in 1..Len(items) :
            (/\ m < n
             /\ items[m].start # -1
             /\ items[n].start # -1
             /\ \/ OwnerOf(m) = OwnerOf(n)
                \/ WindowsDisjoint(OwnerOf(m), OwnerOf(n)))
            => Disjoint(items[m], items[n])

\* Two resolved entities of different sentences with disjoint windows.
C28_WitnessTwoSentences ==
    /\ pc = "recovered"
    /\ \E m, n \in 1..Len(items) :
          /\ m < n
          /\ items[m].start # -1
          /\ items[n].start # -1
          /\ OwnerOf(m) # OwnerOf(n)
          /\ WindowsDisjoint(OwnerOf(m), OwnerOf(n))

(***************************************************************************)
(* Merging partitions the surviving entities: C29                          *)
(***************************************************************************)
\* The number of input entities an output entity stands for.
MemberCount(r) == Len(SplitIds(coarse[r].token_id))

RECURSIVE MergesUpTo(_)
MergesUpTo(r) ==
    IF r = 0 THEN 0 ELSE MergesUpTo(r - 1) + (MemberCount(r) - 1)

\* C29: with merging enabled every input entity that is neither a
\* sentinel nor skipped is a member of exactly one output entity, as
\* itself or as a constituent of one merged run; no entity is lost or
\* counted twice, and the number of output entities plus the number of
\* merges performed equals the number of surviving inputs.
C29_MergingPartitionsSurvivors ==
    Merging =>
        /\ \A n \in 1..Len(items) :
              Cardinality(Holding(items[n]))
                 = IF Survives(items[n]) THEN 1 ELSE 0
        /\ \A r \in 1..Len(coarse) :
              Cardinality(IdsOf(r)) = MemberCount(r)
        /\ \A r \in 1..Len(coarse) :
              \A id \in IdsOf(r) :
                 \E n \in 1..Len(items) : items[n].token_id = id
        /\ Len(coarse) + MergesUpTo(Len(coarse)) = Len(SurvivingItems)

\* C29's case: two surviving entities merged into one output entity.
C29_Witness ==
    /\ Merging
    /\ Len(SurvivingItems) = 2
    /\ Len(coarse) = 1
    /\ MemberCount(1) = 2

\* One entity dropped and one kept, and two entities kept apart.
C29_WitnessDroppedAndApart ==
    /\ Merging
    /\ Len(items) = 2
    /\ \/ Len(SurvivingItems) = 1 /\ Len(coarse) = 1
       \/ Len(SurvivingItems) = 2 /\ Len(coarse) = 2

(***************************************************************************)
(* What the anchor search returns: C30                                     *)
(***************************************************************************)
\* The search fails: the sentence has no token, or its first token does
\* not occur in the text at or after offset.
AnchorFails ==
    IF AnchorTokens = <<>> THEN TRUE
    ELSE ~\E p \in Max2(anchor.offset, 0)..Len(original_text) :
             OccursAt(FirstToken, p)

EmptyIffFailed ==
    /\ (anchor.start_index = anchor.final_index) <=> AnchorFails
    /\ AnchorFails =>
          /\ anchor.start_index = anchor.offset
          /\ anchor.final_index = anchor.offset
    /\ ~AnchorFails =>
          /\ anchor.offset <= anchor.start_index
          /\ anchor.start_index < anchor.final_index
          /\ anchor.final_index <= Len(original_text)

\* C30: the anchor search returns start = end exactly when it fails (the
\* sentence has no token, or its first token does not occur in the text
\* at or after offset), and then returns (offset, offset); whenever the
\* first token is found, offset <= start < end <= len(text).
C30_EmptyIffFailed ==
    AnchorReturned => EmptyIffFailed

\* C30 holds of every search from an offset that is a position of the
\* text.
C30_EmptyIffFailedFromTextPositions ==
    (AnchorReturned /\ anchor.offset >= 0) => EmptyIffFailed

\* A failed search and a search that found the first token and no last
\* token in range, both from positions of the text.
C30_WitnessFailedFromTextPosition ==
    /\ AnchorReturned
    /\ anchor.offset > 0
    /\ AnchorTokens # <<>>
    /\ AnchorFails
    /\ anchor.start_index = anchor.offset

====
